---- MODULE Spec2Model ----
(***************************************************************************)
(* Model of the inheritance rule engine: exact fractions (fraction.js),    *)
(* fixed shares and residuary heirs (shares.js), blocking (blocking.js)    *)
(* and the three corrective procedures (special-cases.js).                 *)
(*                                                                         *)
(* Every operation of the engine is a pure function of the heir            *)
(* composition `heirs`.  The state machine draws a composition in Init and *)
(* each action applies one exported operation to it, recording which one   *)
(* in `op` and what it returned in `result`.                               *)
(***************************************************************************)
EXTENDS Integers, Sequences, FiniteSets, TLC

VARIABLES heirs, op, arg, result

vars == <<heirs, op, arg, result>>

(***************************************************************************)
(* Bounds of the model.                                                    *)
(***************************************************************************)
\* The largest number of persons (summed over all categories) in one composition.
MaxHeirs == 4

\* The largest absolute value of a numerator and of a denominator handed to the
\* Fraction constructor when the arithmetic is exercised on its own.
MaxNumerator == 3

MaxDenominator == 3

(***************************************************************************)
(* fraction.js : class Fraction                                            *)
(***************************************************************************)
\* JavaScript null.
Null == [null |-> TRUE]

\* The value standing for "the call threw": `throw new Error(...)`.
Thrown == [error |-> TRUE]

IsNull(x) == DOMAIN x = {"null"}

IsThrown(x) == DOMAIN x = {"error"}

IsFraction(x) == DOMAIN x = {"num", "den"}

Abs(n) == IF n < 0 THEN -n ELSE n

\* Variant of the constructor: the sign stays where it was given.
Fraction_SignInPlace(numerator, denominator) ==
    IF denominator = 0 THEN Thrown
    ELSE [num |-> numerator, den |-> denominator]

\* new Fraction(numerator, denominator): throws on a zero denominator and carries
\* the sign on the numerator.
Fraction(numerator, denominator) ==
    IF denominator = 0 THEN Thrown
    ELSE IF denominator < 0 THEN [num |-> -numerator, den |-> -denominator]
    ELSE [num |-> numerator, den |-> denominator]

RECURSIVE gcdLoop(_, _)
gcdLoop(a, b) == IF b # 0 THEN gcdLoop(b, a % b) ELSE a

\* Fraction.gcd: Euclid's algorithm on the absolute values.
gcd(a, b) == gcdLoop(Abs(a), Abs(b))

\* Variant of simplify: nothing is divided out.
simplify_Unreduced(f) ==
    IF IsThrown(f) THEN Thrown
    ELSE IF f.num = 0 THEN Fraction(0, 1)
    ELSE Fraction(f.num, f.den)

\* simplify(): both components divided by their gcd; zero becomes 0/1.
simplify(f) ==
    IF IsThrown(f) THEN Thrown
    ELSE IF f.num = 0 THEN Fraction(0, 1)
    ELSE LET g == gcd(f.num, f.den)
         IN Fraction(f.num \div g, f.den \div g)

\* a/b + c/d = (a*d + c*b) / (b*d), simplified.
add(a, b) ==
    IF IsThrown(a) \/ IsThrown(b) THEN Thrown
    ELSE simplify(Fraction(a.num * b.den + b.num * a.den, a.den * b.den))

\* a/b - c/d = (a*d - c*b) / (b*d), simplified.
subtract(a, b) ==
    IF IsThrown(a) \/ IsThrown(b) THEN Thrown
    ELSE simplify(Fraction(a.num * b.den - b.num * a.den, a.den * b.den))

\* a/b * c/d = (a*c) / (b*d), simplified.
multiply(a, b) ==
    IF IsThrown(a) \/ IsThrown(b) THEN Thrown
    ELSE simplify(Fraction(a.num * b.num, a.den * b.den))

\* a/b / c/d = (a*d) / (b*c), simplified; throws when the divisor is zero.
divide(a, b) ==
    IF IsThrown(a) \/ IsThrown(b) THEN Thrown
    ELSE IF b.num = 0 THEN Thrown
    ELSE simplify(Fraction(a.num * b.den, a.den * b.num))

\* equals(): both sides simplified, then compared component by component.
equals(a, b) ==
    LET s1 == simplify(a)
        s2 == simplify(b)
    IN s1.num = s2.num /\ s1.den = s2.den

\* greaterThan(): cross multiplication.
greaterThan(a, b) == a.num * b.den > b.num * a.den

\* lessThan(): cross multiplication.
lessThan(a, b) == a.num * b.den < b.num * a.den

isZero(f) == f.num = 0

Zero == Fraction(0, 1)

One == Fraction(1, 1)

(***************************************************************************)
(* The heir composition record (the `heirs` argument of every operation).  *)
(***************************************************************************)
\* Fields holding a presence flag (true / false).
BooleanFields ==
    {"husband", "wife", "father", "mother", "paternalGrandfather",
     "paternalGrandmother", "maternalGrandmother"}

\* Categories of persons a composition is made of; "wife" counts the wives.
SingleKinds ==
    {"husband", "father", "mother", "paternalGrandfather",
     "paternalGrandmother", "maternalGrandmother"}

CountKinds ==
    {"wife", "sons", "daughters", "grandsonsFromSon", "granddaughtersFromSon",
     "fullBrothers", "fullSisters", "paternalBrothers", "paternalSisters",
     "maternalBrothers", "maternalSisters", "nephewsFullBrothers",
     "nephewsPaternalBrothers", "unclesFull", "unclesPaternal"}

Kinds == SingleKinds \cup CountKinds

\* The composition with nobody in it.
NoHeirs ==
    [husband |-> FALSE,
     wife |-> FALSE,
     wifeCount |-> 0,
     sons |-> 0,
     daughters |-> 0,
     grandsonsFromSon |-> 0,
     granddaughtersFromSon |-> 0,
     father |-> FALSE,
     mother |-> FALSE,
     paternalGrandfather |-> FALSE,
     paternalGrandmother |-> FALSE,
     maternalGrandmother |-> FALSE,
     fullBrothers |-> 0,
     fullSisters |-> 0,
     paternalBrothers |-> 0,
     paternalSisters |-> 0,
     maternalBrothers |-> 0,
     maternalSisters |-> 0,
     nephewsFullBrothers |-> 0,
     nephewsPaternalBrothers |-> 0,
     unclesFull |-> 0,
     unclesPaternal |-> 0]

Flag(b) == IF b THEN 1 ELSE 0

\* The number of persons in a composition.
HeadCount(h) ==
    Flag(h.husband) + h.wifeCount + Flag(h.father) + Flag(h.mother)
    + Flag(h.paternalGrandfather) + Flag(h.paternalGrandmother)
    + Flag(h.maternalGrandmother)
    + h.sons + h.daughters + h.grandsonsFromSon + h.granddaughtersFromSon
    + h.fullBrothers + h.fullSisters + h.paternalBrothers + h.paternalSisters
    + h.maternalBrothers + h.maternalSisters + h.nephewsFullBrothers
    + h.nephewsPaternalBrothers + h.unclesFull + h.unclesPaternal

\* One more person of kind k may join composition h: a single-person category
\* holds at most one, and husband and wife exclude each other.
CanAdd(h, k) ==
    /\ k \in SingleKinds => ~h[k]
    /\ k = "husband" => ~h.wife
    /\ k = "wife" => ~h.husband

\* The composition h with one more person of kind k.
WithHeir(h, k) ==
    IF k \in SingleKinds THEN [h EXCEPT ![k] = TRUE]
    ELSE IF k = "wife" THEN [h EXCEPT !.wife = TRUE, !.wifeCount = @ + 1]
    ELSE [h EXCEPT ![k] = @ + 1]

(***************************************************************************)
(* shares.js : helpers and HeirTypes[...].getShare                         *)
(***************************************************************************)
hasChildren(h) ==
    h.sons > 0 \/ h.daughters > 0 \/ h.grandsonsFromSon > 0
    \/ h.granddaughtersFromSon > 0

hasMaleDescendants(h) == h.sons > 0 \/ h.grandsonsFromSon > 0

hasMultipleSiblings(h) ==
    LET totalSiblings ==
            h.fullBrothers + h.fullSisters + h.paternalBrothers
            + h.paternalSisters + h.maternalBrothers + h.maternalSisters
    IN totalSiblings >= 2

\* Variant of HUSBAND.getShare: a half whether or not there are children.
HUSBAND_getShare_AlwaysHalf(h) ==
    IF hasChildren(h) THEN Fraction(1, 2) ELSE Fraction(1, 2)

HUSBAND_getShare(h) == IF hasChildren(h) THEN Fraction(1, 4) ELSE Fraction(1, 2)

WIFE_getShare(h) == IF hasChildren(h) THEN Fraction(1, 8) ELSE Fraction(1, 4)

SON_getShare(h) == Null

\* Variant of DAUGHTER.getShare: a son does not make the daughters residuary.
DAUGHTER_getShare_IgnoresSons(h) ==
    IF h.daughters = 1 THEN Fraction(1, 2)
    ELSE Fraction(2, 3)

DAUGHTER_getShare(h) ==
    IF h.sons > 0 THEN Null
    ELSE IF h.daughters = 1 THEN Fraction(1, 2)
    ELSE Fraction(2, 3)

GRANDSON_FROM_SON_getShare(h) == Null

\* Variant of GRANDDAUGHTER_FROM_SON.getShare: two daughters do not exclude.
GRANDDAUGHTER_FROM_SON_getShare_PastDaughters(h) ==
    IF h.grandsonsFromSon > 0 THEN Null
    ELSE IF h.daughters = 1 THEN Fraction(1, 6)
    ELSE IF h.granddaughtersFromSon = 1 THEN Fraction(1, 2)
    ELSE Fraction(2, 3)

GRANDDAUGHTER_FROM_SON_getShare(h) ==
    IF h.grandsonsFromSon > 0 THEN Null
    ELSE IF h.daughters = 1 THEN Fraction(1, 6)
    ELSE IF h.daughters >= 2 THEN Fraction(0, 1)
    ELSE IF h.granddaughtersFromSon = 1 THEN Fraction(1, 2)
    ELSE Fraction(2, 3)

FATHER_getShare(h) ==
    IF hasMaleDescendants(h) THEN Fraction(1, 6)
    ELSE IF h.daughters > 0 \/ h.granddaughtersFromSon > 0 THEN Fraction(1, 6)
    ELSE Null

\* Variant of MOTHER.getShare: the siblings are not looked at.
MOTHER_getShare_IgnoresSiblings(h) ==
    IF hasChildren(h) THEN Fraction(1, 6)
    ELSE Fraction(1, 3)

MOTHER_getShare(h) ==
    IF hasChildren(h) \/ hasMultipleSiblings(h) THEN Fraction(1, 6)
    ELSE Fraction(1, 3)

PATERNAL_GRANDFATHER_getShare(h) ==
    IF hasMaleDescendants(h) THEN Fraction(1, 6)
    ELSE IF h.daughters > 0 \/ h.granddaughtersFromSon > 0 THEN Fraction(1, 6)
    ELSE Null

PATERNAL_GRANDMOTHER_getShare(h) == Fraction(1, 6)

MATERNAL_GRANDMOTHER_getShare(h) == Fraction(1, 6)

FULL_BROTHER_getShare(h) == Null

FULL_SISTER_getShare(h) ==
    IF h.fullBrothers > 0 THEN Null
    ELSE IF h.fullSisters = 1 THEN Fraction(1, 2)
    ELSE Fraction(2, 3)

PATERNAL_BROTHER_getShare(h) == Null

\* Variant of PATERNAL_SISTER.getShare: the full sisters are not looked at.
PATERNAL_SISTER_getShare_IgnoresFullSisters(h) ==
    IF h.paternalBrothers > 0 THEN Null
    ELSE IF h.paternalSisters = 1 THEN Fraction(1, 2)
    ELSE Fraction(2, 3)

PATERNAL_SISTER_getShare(h) ==
    IF h.paternalBrothers > 0 THEN Null
    ELSE IF h.fullSisters = 1 THEN Fraction(1, 6)
    ELSE IF h.fullSisters >= 2 THEN Fraction(0, 1)
    ELSE IF h.paternalSisters = 1 THEN Fraction(1, 2)
    ELSE Fraction(2, 3)

\* Variant of MATERNAL_BROTHER.getShare: the father does not exclude.
MATERNAL_BROTHER_getShare_PastFather(h) ==
    IF hasChildren(h) THEN Fraction(0, 1)
    ELSE LET totalMaternal == h.maternalBrothers + h.maternalSisters
         IN IF totalMaternal = 1 THEN Fraction(1, 6) ELSE Fraction(1, 3)

MATERNAL_BROTHER_getShare(h) ==
    IF h.father \/ hasChildren(h) THEN Fraction(0, 1)
    ELSE LET totalMaternal == h.maternalBrothers + h.maternalSisters
         IN IF totalMaternal = 1 THEN Fraction(1, 6) ELSE Fraction(1, 3)

MATERNAL_SISTER_getShare(h) ==
    IF h.father \/ hasChildren(h) THEN Fraction(0, 1)
    ELSE LET totalMaternal == h.maternalBrothers + h.maternalSisters
         IN IF totalMaternal = 1 THEN Fraction(1, 6) ELSE Fraction(1, 3)

(***************************************************************************)
(* shares.js : share calculators                                           *)
(***************************************************************************)
calculateHusbandShare(h) == HUSBAND_getShare(h)

\* Variant of calculateWifeShare: every wife takes the whole share of the wives.
calculateWifeShare_NoSplit(h) ==
    LET totalShare == WIFE_getShare(h)
        wifeCount == IF h.wifeCount = 0 THEN 1 ELSE h.wifeCount
    IN [totalShare |-> totalShare,
        perWifeShare |-> totalShare,
        wifeCount |-> wifeCount]

\* `heirs.wifeCount || 1`: a missing or zero count is taken as one wife.
calculateWifeShare(h) ==
    LET totalShare == WIFE_getShare(h)
        wifeCount == IF h.wifeCount = 0 THEN 1 ELSE h.wifeCount
    IN [totalShare |-> totalShare,
        perWifeShare |-> divide(totalShare, Fraction(wifeCount, 1)),
        wifeCount |-> wifeCount]

calculateMotherShare(h) == MOTHER_getShare(h)

\* Variant of calculateFatherShare: residuary whatever the descendants.
calculateFatherShare_AlwaysAsaba(h) ==
    LET hasMaleDesc == hasMaleDescendants(h)
        hasFemaleDesc == h.daughters > 0 \/ h.granddaughtersFromSon > 0
    IN [fixedShare |-> FATHER_getShare(h),
        isAsaba |-> TRUE,
        asabaWithFixed |-> ~hasMaleDesc /\ hasFemaleDesc]

calculateFatherShare(h) ==
    LET hasMaleDesc == hasMaleDescendants(h)
        hasFemaleDesc == h.daughters > 0 \/ h.granddaughtersFromSon > 0
    IN [fixedShare |-> FATHER_getShare(h),
        isAsaba |-> ~hasMaleDesc,
        asabaWithFixed |-> ~hasMaleDesc /\ hasFemaleDesc]

calculateGrandfatherShare(h) ==
    LET hasMaleDesc == hasMaleDescendants(h)
        hasFemaleDesc == h.daughters > 0 \/ h.granddaughtersFromSon > 0
    IN [fixedShare |-> PATERNAL_GRANDFATHER_getShare(h),
        isAsaba |-> ~hasMaleDesc,
        asabaWithFixed |-> ~hasMaleDesc /\ hasFemaleDesc]

\* Variant of calculateGrandmotherShare: every grandmother takes the full sixth.
calculateGrandmotherShare_NoSplit(h) ==
    LET grandmotherCount ==
            (IF h.paternalGrandmother /\ ~h.mother THEN 1 ELSE 0)
            + (IF h.maternalGrandmother /\ ~h.mother THEN 1 ELSE 0)
        totalShare == Fraction(1, 6)
    IN IF grandmotherCount = 0 THEN Null
       ELSE [totalShare |-> totalShare,
             perGrandmotherShare |-> totalShare,
             grandmotherCount |-> grandmotherCount,
             paternalGrandmother |-> h.paternalGrandmother /\ ~h.mother,
             maternalGrandmother |-> h.maternalGrandmother /\ ~h.mother]

calculateGrandmotherShare(h) ==
    LET grandmotherCount ==
            (IF h.paternalGrandmother /\ ~h.mother THEN 1 ELSE 0)
            + (IF h.maternalGrandmother /\ ~h.mother THEN 1 ELSE 0)
        totalShare == Fraction(1, 6)
    IN IF grandmotherCount = 0 THEN Null
       ELSE [totalShare |-> totalShare,
             perGrandmotherShare |->
                 divide(totalShare, Fraction(grandmotherCount, 1)),
             grandmotherCount |-> grandmotherCount,
             paternalGrandmother |-> h.paternalGrandmother /\ ~h.mother,
             maternalGrandmother |-> h.maternalGrandmother /\ ~h.mother]

calculateDaughterShare(h) ==
    IF h.daughters = 0 THEN Null
    ELSE LET share == DAUGHTER_getShare(h)
         IN IF IsNull(share)
            THEN [share |-> Null, count |-> h.daughters, isAsaba |-> TRUE,
                  perPersonShare |-> Null, blocked |-> FALSE]
            ELSE [share |-> share, count |-> h.daughters, isAsaba |-> FALSE,
                  perPersonShare |-> divide(share, Fraction(h.daughters, 1)),
                  blocked |-> FALSE]

calculateGranddaughterShare(h) ==
    IF h.sons > 0 THEN Null
    ELSE IF h.granddaughtersFromSon = 0 THEN Null
    ELSE LET share == GRANDDAUGHTER_FROM_SON_getShare(h)
         IN IF IsNull(share)
            THEN [share |-> Null, count |-> h.granddaughtersFromSon,
                  isAsaba |-> TRUE, perPersonShare |-> Null, blocked |-> FALSE]
            ELSE IF isZero(share)
            THEN [share |-> Fraction(0, 1), count |-> h.granddaughtersFromSon,
                  isAsaba |-> FALSE, perPersonShare |-> Fraction(0, 1),
                  blocked |-> TRUE]
            ELSE [share |-> share, count |-> h.granddaughtersFromSon,
                  isAsaba |-> FALSE,
                  perPersonShare |->
                      divide(share, Fraction(h.granddaughtersFromSon, 1)),
                  blocked |-> FALSE]

(***************************************************************************)
(* shares.js : residuary heirs (asaba)                                     *)
(***************************************************************************)
\* Variant of AsabaPriority: the father ahead of the descendants.
AsabaPriority_FatherFirst ==
    <<"father", "sons", "grandsonsFromSon", "paternalGrandfather",
      "fullBrothers", "paternalBrothers", "nephewsFullBrothers",
      "nephewsPaternalBrothers", "unclesFull", "unclesPaternal">>

\* AsabaPriority: the residuary categories from the highest priority down.
AsabaPriority ==
    <<"sons", "grandsonsFromSon", "father", "paternalGrandfather",
      "fullBrothers", "paternalBrothers", "nephewsFullBrothers",
      "nephewsPaternalBrothers", "unclesFull", "unclesPaternal">>

\* `!count || count === 0 || count === false` is false: the field is a true
\* flag or a positive count.
Present(h, f) == IF f \in BooleanFields THEN h[f] ELSE h[f] > 0

\* The `continue` conditions of determineAsaba's loop body for one category.
AsabaSkipped(h, key) ==
    LET blockedByCloserAsaba ==
            h.sons > 0 \/ h.grandsonsFromSon > 0 \/ h.father
            \/ h.paternalGrandfather \/ h.fullBrothers > 0
            \/ h.paternalBrothers > 0
    IN \/ key = "grandsonsFromSon" /\ h.sons > 0
       \/ key = "paternalGrandfather" /\ h.father
       \/ /\ key \in {"fullBrothers", "paternalBrothers"}
          /\ (h.father \/ h.sons > 0 \/ h.grandsonsFromSon > 0)
       \/ key = "paternalBrothers" /\ h.fullBrothers > 0
       \/ key = "nephewsFullBrothers" /\ blockedByCloserAsaba
       \/ /\ key = "nephewsPaternalBrothers"
          /\ (blockedByCloserAsaba \/ h.nephewsFullBrothers > 0)
       \/ /\ key = "unclesFull"
          /\ (blockedByCloserAsaba \/ h.nephewsFullBrothers > 0
              \/ h.nephewsPaternalBrothers > 0)
       \/ /\ key = "unclesPaternal"
          /\ (blockedByCloserAsaba \/ h.nephewsFullBrothers > 0
              \/ h.nephewsPaternalBrothers > 0 \/ h.unclesFull > 0)

\* The record determineAsaba returns for the category it settles on.
AsabaInfoFor(h, key) ==
    LET asabaCount == IF key \in BooleanFields THEN 1 ELSE h[key]
        femaleCount ==
            IF key = "sons" THEN h.daughters
            ELSE IF key = "grandsonsFromSon" THEN h.granddaughtersFromSon
            ELSE IF key = "fullBrothers" THEN h.fullSisters
            ELSE IF key = "paternalBrothers" THEN h.paternalSisters
            ELSE 0
        femaleType ==
            IF key = "sons" THEN "daughter"
            ELSE IF key = "grandsonsFromSon" THEN "granddaughtersFromSon"
            ELSE IF key = "fullBrothers" THEN "fullSisters"
            ELSE IF key = "paternalBrothers" THEN "paternalSisters"
            ELSE "null"
    IN [key |-> key, maleCount |-> asabaCount, femaleType |-> femaleType,
        femaleCount |-> femaleCount, hasFemales |-> femaleCount > 0]

RECURSIVE determineAsabaFrom(_, _)
determineAsabaFrom(h, i) ==
    IF i > Len(AsabaPriority) THEN Null
    ELSE IF ~Present(h, AsabaPriority[i]) THEN determineAsabaFrom(h, i + 1)
    ELSE IF AsabaSkipped(h, AsabaPriority[i]) THEN determineAsabaFrom(h, i + 1)
    ELSE AsabaInfoFor(h, AsabaPriority[i])

\* determineAsaba(heirs): the first present, unblocked residuary category.
determineAsaba(h) == determineAsabaFrom(h, 1)

\* Variant of distributeAsaba: every head of the tier takes one equal part.
distributeAsaba_EqualParts(remainder, asabaInfo) ==
    IF IsNull(asabaInfo) \/ isZero(remainder)
    THEN [maleShare |-> Fraction(0, 1), femaleShare |-> Fraction(0, 1),
          perMaleShare |-> Fraction(0, 1), perFemaleShare |-> Fraction(0, 1),
          totalShares |-> 0]
    ELSE IF ~asabaInfo.hasFemales
    THEN [maleShare |-> remainder, femaleShare |-> Fraction(0, 1),
          perMaleShare |-> divide(remainder, Fraction(asabaInfo.maleCount, 1)),
          perFemaleShare |-> Fraction(0, 1),
          totalShares |-> asabaInfo.maleCount]
    ELSE LET totalShares == asabaInfo.maleCount + asabaInfo.femaleCount
             shareUnit == divide(remainder, Fraction(totalShares, 1))
             perMaleShare == shareUnit
             perFemaleShare == shareUnit
         IN [maleShare |->
                 multiply(perMaleShare, Fraction(asabaInfo.maleCount, 1)),
             femaleShare |->
                 multiply(perFemaleShare, Fraction(asabaInfo.femaleCount, 1)),
             perMaleShare |-> perMaleShare,
             perFemaleShare |-> perFemaleShare,
             totalShares |-> totalShares]

\* distributeAsaba(remainder, asabaInfo)
distributeAsaba(remainder, asabaInfo) ==
    IF IsNull(asabaInfo) \/ isZero(remainder)
    THEN [maleShare |-> Fraction(0, 1), femaleShare |-> Fraction(0, 1),
          perMaleShare |-> Fraction(0, 1), perFemaleShare |-> Fraction(0, 1),
          totalShares |-> 0]
    ELSE IF ~asabaInfo.hasFemales
    THEN [maleShare |-> remainder, femaleShare |-> Fraction(0, 1),
          perMaleShare |-> divide(remainder, Fraction(asabaInfo.maleCount, 1)),
          perFemaleShare |-> Fraction(0, 1),
          totalShares |-> asabaInfo.maleCount]
    ELSE LET totalShares == asabaInfo.maleCount * 2 + asabaInfo.femaleCount
             shareUnit == divide(remainder, Fraction(totalShares, 1))
             perMaleShare == multiply(shareUnit, Fraction(2, 1))
             perFemaleShare == shareUnit
         IN [maleShare |->
                 multiply(perMaleShare, Fraction(asabaInfo.maleCount, 1)),
             femaleShare |->
                 multiply(perFemaleShare, Fraction(asabaInfo.femaleCount, 1)),
             perMaleShare |-> perMaleShare,
             perFemaleShare |-> perFemaleShare,
             totalShares |-> totalShares]

(***************************************************************************)
(* shares.js : calculateFixedSharesTotal, calculateRemainder               *)
(***************************************************************************)
When(cond, key, share) ==
    IF cond THEN <<[key |-> key, share |-> share]>> ELSE <<>>

\* Variant of calculateFixedSharesTotal: the paternal sisters' branch does not
\* test for full brothers.
FixedContributions_PaternalSistersPastFullBrother(h) ==
    LET daughterResult == calculateDaughterShare(h)
        granddaughterResult == calculateGranddaughterShare(h)
        totalMaternal == h.maternalBrothers + h.maternalSisters
    IN When(h.husband, "husband", calculateHusbandShare(h))
       \o When(~h.husband /\ h.wife, "wife", calculateWifeShare(h).totalShare)
       \o When(h.mother, "mother", calculateMotherShare(h))
       \o When(h.father /\ ~IsNull(calculateFatherShare(h).fixedShare),
               "father", calculateFatherShare(h).fixedShare)
       \o When(/\ h.paternalGrandfather /\ ~h.father
               /\ ~IsNull(calculateGrandfatherShare(h).fixedShare),
               "paternalGrandfather", calculateGrandfatherShare(h).fixedShare)
       \o When(/\ (h.paternalGrandmother \/ h.maternalGrandmother) /\ ~h.mother
               /\ ~IsNull(calculateGrandmotherShare(h)),
               "grandmothers", calculateGrandmotherShare(h).totalShare)
       \o When(/\ h.daughters > 0 /\ h.sons = 0
               /\ ~IsNull(daughterResult)
               /\ ~daughterResult.isAsaba
               /\ ~IsNull(daughterResult.share),
               "daughters", daughterResult.share)
       \o When(/\ h.granddaughtersFromSon > 0 /\ h.sons = 0
               /\ ~IsNull(granddaughterResult)
               /\ ~granddaughterResult.isAsaba
               /\ ~IsNull(granddaughterResult.share),
               "granddaughtersFromSon", granddaughterResult.share)
       \o When(/\ h.fullSisters > 0 /\ h.fullBrothers = 0 /\ ~h.father
               /\ h.sons = 0 /\ h.grandsonsFromSon = 0
               /\ ~IsNull(FULL_SISTER_getShare(h)),
               "fullSisters", FULL_SISTER_getShare(h))
       \o When(/\ h.paternalSisters > 0 /\ h.paternalBrothers = 0 /\ ~h.father
               /\ h.sons = 0 /\ h.grandsonsFromSon = 0
               /\ ~IsNull(PATERNAL_SISTER_getShare(h)),
               "paternalSisters", PATERNAL_SISTER_getShare(h))
       \o When(~h.father /\ ~hasChildren(h) /\ totalMaternal > 0,
               "maternalSiblings",
               IF totalMaternal = 1 THEN Fraction(1, 6) ELSE Fraction(1, 3))

\* The shares calculateFixedSharesTotal adds to its running total, in the order
\* of its `total = total.add(...)` statements, each under the guard of its branch.
FixedContributions(h) ==
    LET daughterResult == calculateDaughterShare(h)
        granddaughterResult == calculateGranddaughterShare(h)
        totalMaternal == h.maternalBrothers + h.maternalSisters
    IN When(h.husband, "husband", calculateHusbandShare(h))
       \o When(~h.husband /\ h.wife, "wife", calculateWifeShare(h).totalShare)
       \o When(h.mother, "mother", calculateMotherShare(h))
       \o When(h.father /\ ~IsNull(calculateFatherShare(h).fixedShare),
               "father", calculateFatherShare(h).fixedShare)
       \o When(/\ h.paternalGrandfather /\ ~h.father
               /\ ~IsNull(calculateGrandfatherShare(h).fixedShare),
               "paternalGrandfather", calculateGrandfatherShare(h).fixedShare)
       \o When(/\ (h.paternalGrandmother \/ h.maternalGrandmother) /\ ~h.mother
               /\ ~IsNull(calculateGrandmotherShare(h)),
               "grandmothers", calculateGrandmotherShare(h).totalShare)
       \o When(/\ h.daughters > 0 /\ h.sons = 0
               /\ ~IsNull(daughterResult)
               /\ ~daughterResult.isAsaba
               /\ ~IsNull(daughterResult.share),
               "daughters", daughterResult.share)
       \o When(/\ h.granddaughtersFromSon > 0 /\ h.sons = 0
               /\ ~IsNull(granddaughterResult)
               /\ ~granddaughterResult.isAsaba
               /\ ~IsNull(granddaughterResult.share),
               "granddaughtersFromSon", granddaughterResult.share)
       \o When(/\ h.fullSisters > 0 /\ h.fullBrothers = 0 /\ ~h.father
               /\ h.sons = 0 /\ h.grandsonsFromSon = 0
               /\ ~IsNull(FULL_SISTER_getShare(h)),
               "fullSisters", FULL_SISTER_getShare(h))
       \o When(/\ h.paternalSisters > 0 /\ h.paternalBrothers = 0 /\ ~h.father
               /\ h.sons = 0 /\ h.grandsonsFromSon = 0 /\ h.fullBrothers = 0
               /\ ~IsNull(PATERNAL_SISTER_getShare(h)),
               "paternalSisters", PATERNAL_SISTER_getShare(h))
       \o When(~h.father /\ ~hasChildren(h) /\ totalMaternal > 0,
               "maternalSiblings",
               IF totalMaternal = 1 THEN Fraction(1, 6) ELSE Fraction(1, 3))

RECURSIVE SumFrom(_, _, _)
SumFrom(entries, i, total) ==
    IF i > Len(entries) THEN total
    ELSE SumFrom(entries, i + 1, add(total, entries[i].share))

\* calculateFixedSharesTotal(heirs)
calculateFixedSharesTotal(h) == SumFrom(FixedContributions(h), 1, Fraction(0, 1))

\* calculateRemainder(heirs) = 1 - fixed total; negative when the shares exceed 1.
calculateRemainder(h) == subtract(Fraction(1, 1), calculateFixedSharesTotal(h))

\* Variant of calculateAsaba: the sign of the remainder is not looked at.
calculateAsaba_AnyRemainder(h) ==
    LET asabaInfo == determineAsaba(h)
        remainder == calculateRemainder(h)
    IN IF IsNull(asabaInfo)
       THEN [hasAsaba |-> FALSE, asabaInfo |-> Null, remainder |-> remainder,
             distribution |-> Null]
       ELSE [hasAsaba |-> TRUE, asabaInfo |-> asabaInfo,
             remainder |-> remainder,
             distribution |-> distributeAsaba(remainder, asabaInfo)]

\* calculateAsaba(heirs)
calculateAsaba(h) ==
    LET asabaInfo == determineAsaba(h)
        remainder == calculateRemainder(h)
    IN IF IsNull(asabaInfo) \/ lessThan(remainder, Fraction(0, 1))
          \/ isZero(remainder)
       THEN [hasAsaba |-> FALSE, asabaInfo |-> Null, remainder |-> remainder,
             distribution |-> Null]
       ELSE [hasAsaba |-> TRUE, asabaInfo |-> asabaInfo,
             remainder |-> remainder,
             distribution |-> distributeAsaba(remainder, asabaInfo)]

(***************************************************************************)
(* special-cases.js : al-Awl (proportional reduction)                      *)
(***************************************************************************)
\* A notification object; the message text is not modelled, its kind is.
Notification(type, rule) == [type |-> type, rule |-> rule]

needsAwl(h) == greaterThan(calculateFixedSharesTotal(h), Fraction(1, 1))

\* Variant of calculateAwlRatio: the total itself instead of its reciprocal.
calculateAwlRatio_NotInverted(h) ==
    LET fixedTotal == calculateFixedSharesTotal(h)
        one == Fraction(1, 1)
    IN IF ~greaterThan(fixedTotal, one) THEN one ELSE divide(fixedTotal, one)

calculateAwlRatio(h) ==
    LET fixedTotal == calculateFixedSharesTotal(h)
        one == Fraction(1, 1)
    IN IF ~greaterThan(fixedTotal, one) THEN one ELSE divide(one, fixedTotal)

applyAwlToShare(share, awlRatio) ==
    IF IsNull(share) \/ isZero(share) THEN Fraction(0, 1)
    ELSE multiply(share, awlRatio)

applyAwl(h) ==
    LET fixedTotal == calculateFixedSharesTotal(h)
        one == Fraction(1, 1)
        awlApplied == greaterThan(fixedTotal, one)
    IN IF ~awlApplied
       THEN [applied |-> FALSE, originalTotal |-> fixedTotal,
             adjustedTotal |-> fixedTotal, awlRatio |-> one,
             notification |-> Null]
       ELSE [applied |-> TRUE, originalTotal |-> fixedTotal,
             adjustedTotal |-> one, awlRatio |-> calculateAwlRatio(h),
             notification |-> Notification("warning", "awl")]

(***************************************************************************)
(* special-cases.js : ar-Radd (redistribution of the surplus)              *)
(***************************************************************************)
needsRadd(h) ==
    greaterThan(calculateRemainder(h), Fraction(0, 1))
    /\ IsNull(determineAsaba(h))

canDaughtersParticipateInRadd(h) == h.daughters > 0 /\ h.sons = 0

canGranddaughtersParticipateInRadd(h) ==
    h.granddaughtersFromSon > 0 /\ h.sons = 0

canGrandmothersParticipateInRadd(h) ==
    (h.paternalGrandmother \/ h.maternalGrandmother) /\ ~h.mother

areSistersBlockedFromRadd(h) ==
    h.father \/ h.sons > 0 \/ h.grandsonsFromSon > 0

canFullSistersParticipateInRadd(h) ==
    h.fullSisters > 0 /\ h.fullBrothers = 0 /\ ~areSistersBlockedFromRadd(h)

canPaternalSistersParticipateInRadd(h) ==
    /\ h.paternalSisters > 0
    /\ h.paternalBrothers = 0
    /\ h.fullBrothers = 0
    /\ ~areSistersBlockedFromRadd(h)

isKalalahCondition(h) == ~h.father /\ ~hasChildren(h)

Push(cond, recipient) == IF cond THEN <<recipient>> ELSE <<>>

\* getRaddRecipients(heirs): the recipients in the order they are pushed.
getRaddRecipients(h) ==
    Push(h.mother, "mother")
    \o Push(canDaughtersParticipateInRadd(h), "daughters")
    \o Push(canGranddaughtersParticipateInRadd(h), "granddaughtersFromSon")
    \o Push(canGrandmothersParticipateInRadd(h), "grandmothers")
    \o Push(canFullSistersParticipateInRadd(h), "fullSisters")
    \o Push(canPaternalSistersParticipateInRadd(h), "paternalSisters")
    \o Push(isKalalahCondition(h) /\ h.maternalBrothers > 0, "maternalBrothers")
    \o Push(isKalalahCondition(h) /\ h.maternalSisters > 0, "maternalSisters")

\* Variant of calculateDaughtersRaddShare: one half whatever their number.
calculateDaughtersRaddShare_AlwaysHalf(h) == Fraction(1, 2)

calculateDaughtersRaddShare(h) ==
    IF h.daughters = 1 THEN Fraction(1, 2) ELSE Fraction(2, 3)

calculateGranddaughtersRaddShare(h) ==
    IF h.daughters = 1 THEN Fraction(1, 6)
    ELSE IF h.daughters = 0
    THEN (IF h.granddaughtersFromSon = 1 THEN Fraction(1, 2) ELSE Fraction(2, 3))
    ELSE Fraction(0, 1)

calculateFullSistersRaddShare(h) ==
    IF h.fullSisters = 1 THEN Fraction(1, 2) ELSE Fraction(2, 3)

calculatePaternalSistersRaddShare(h) ==
    IF h.fullSisters = 1 THEN Fraction(1, 6)
    ELSE IF h.fullSisters = 0
    THEN (IF h.paternalSisters = 1 THEN Fraction(1, 2) ELSE Fraction(2, 3))
    ELSE Fraction(0, 1)

calculateMaternalSiblingsRaddShare(h) ==
    LET totalMaternal == h.maternalBrothers + h.maternalSisters
    IN IF totalMaternal = 1 THEN Fraction(1, 6) ELSE Fraction(1, 3)

\* recipients.includes(x)
Includes(recipients, x) == \E i \in 1..Len(recipients) : recipients[i] = x

shouldAddMaternalSiblingsShare(recipient, recipients) ==
    LET hasBrothers == Includes(recipients, "maternalBrothers")
        hasSisters == Includes(recipients, "maternalSisters")
    IN IF recipient = "maternalBrothers" /\ ~hasSisters THEN TRUE
       ELSE IF recipient = "maternalSisters" /\ ~hasBrothers THEN TRUE
       ELSE IF recipient = "maternalBrothers" /\ hasSisters THEN TRUE
       ELSE FALSE

getRecipientRaddShare(recipient, h, recipients) ==
    CASE recipient = "mother" -> calculateMotherShare(h)
      [] recipient = "daughters" -> calculateDaughtersRaddShare(h)
      [] recipient = "granddaughtersFromSon" ->
            calculateGranddaughtersRaddShare(h)
      [] recipient = "grandmothers" -> Fraction(1, 6)
      [] recipient = "fullSisters" -> calculateFullSistersRaddShare(h)
      [] recipient = "paternalSisters" -> calculatePaternalSistersRaddShare(h)
      [] recipient \in {"maternalBrothers", "maternalSisters"} ->
            IF shouldAddMaternalSiblingsShare(recipient, recipients)
            THEN calculateMaternalSiblingsRaddShare(h)
            ELSE Fraction(0, 1)
      [] OTHER -> Fraction(0, 1)

RECURSIVE RaddTotalFrom(_, _, _, _)
RaddTotalFrom(h, recipients, i, total) ==
    IF i > Len(recipients) THEN total
    ELSE RaddTotalFrom(h, recipients, i + 1,
             add(total, getRecipientRaddShare(recipients[i], h, recipients)))

\* Variant of calculateRaddRecipientsTotal: the recipients are not summed.
calculateRaddRecipientsTotal_NothingSummed(h, recipients) == Fraction(0, 1)

calculateRaddRecipientsTotal(h, recipients) ==
    RaddTotalFrom(h, recipients, 1, Fraction(0, 1))

\* The base share is looked up with the one-element list [recipient].
calculateRaddShareForRecipient(recipient, h, remainder, recipientsTotal) ==
    LET baseShare == getRecipientRaddShare(recipient, h, <<recipient>>)
        proportion == divide(baseShare, recipientsTotal)
    IN multiply(remainder, proportion)

\* The object raddShares: one property per recipient.
calculateAllRaddShares(recipients, h, remainder, recipientsTotal) ==
    [r \in {recipients[i] : i \in 1..Len(recipients)} |->
        calculateRaddShareForRecipient(r, h, remainder, recipientsTotal)]

\* The empty object {}.
EmptyObject == [r \in {} |-> Fraction(0, 1)]

createRaddNotAppliedResult(remainder) ==
    [applied |-> FALSE, remainder |-> remainder, recipients |-> <<>>,
     raddShares |-> EmptyObject, notification |-> Null]

\* Variant of applyRadd: no early return for an empty recipient list.
applyRadd_KeepsEmptyRecipients(h) ==
    LET remainder == calculateRemainder(h)
        asabaInfo == determineAsaba(h)
        recipients == getRaddRecipients(h)
        recipientsTotal == calculateRaddRecipientsTotal(h, recipients)
    IN IF ~greaterThan(remainder, Fraction(0, 1)) \/ ~IsNull(asabaInfo)
       THEN createRaddNotAppliedResult(remainder)
       ELSE [applied |-> TRUE, remainder |-> remainder,
             recipients |-> recipients,
             raddShares |->
                 calculateAllRaddShares(recipients, h, remainder,
                                        recipientsTotal),
             notification |-> Notification("info", "radd")]

applyRadd(h) ==
    LET remainder == calculateRemainder(h)
        asabaInfo == determineAsaba(h)
        recipients == getRaddRecipients(h)
        recipientsTotal == calculateRaddRecipientsTotal(h, recipients)
    IN IF ~greaterThan(remainder, Fraction(0, 1)) \/ ~IsNull(asabaInfo)
       THEN createRaddNotAppliedResult(remainder)
       ELSE IF Len(recipients) = 0
       THEN createRaddNotAppliedResult(remainder)
       ELSE [applied |-> TRUE, remainder |-> remainder,
             recipients |-> recipients,
             raddShares |->
                 calculateAllRaddShares(recipients, h, remainder,
                                        recipientsTotal),
             notification |-> Notification("info", "radd")]

(***************************************************************************)
(* special-cases.js : al-Umariyyatan                                       *)
(***************************************************************************)
\* Variant of checkUmariyyatan: the grandparents are not looked at.
checkUmariyyatan_IgnoresGrandparents(h) ==
    IF ~(h.husband \/ h.wife) THEN Null
    ELSE IF ~h.father \/ ~h.mother THEN Null
    ELSE IF h.sons > 0 \/ h.daughters > 0 \/ h.grandsonsFromSon > 0
            \/ h.granddaughtersFromSon > 0 THEN Null
    ELSE IF h.fullBrothers > 0 \/ h.fullSisters > 0 \/ h.paternalBrothers > 0
            \/ h.paternalSisters > 0 \/ h.maternalBrothers > 0
            \/ h.maternalSisters > 0 THEN Null
    ELSE [applies |-> TRUE, caseNumber |-> IF h.husband THEN 1 ELSE 2]

checkUmariyyatan(h) ==
    IF ~(h.husband \/ h.wife) THEN Null
    ELSE IF ~h.father \/ ~h.mother THEN Null
    ELSE IF h.sons > 0 \/ h.daughters > 0 \/ h.grandsonsFromSon > 0
            \/ h.granddaughtersFromSon > 0 THEN Null
    ELSE IF h.fullBrothers > 0 \/ h.fullSisters > 0 \/ h.paternalBrothers > 0
            \/ h.paternalSisters > 0 \/ h.maternalBrothers > 0
            \/ h.maternalSisters > 0 THEN Null
    ELSE IF h.paternalGrandfather \/ h.paternalGrandmother
            \/ h.maternalGrandmother THEN Null
    ELSE [applies |-> TRUE, caseNumber |-> IF h.husband THEN 1 ELSE 2]

\* Variant of calculateUmariyyatanShares: the mother keeps a third of the estate.
calculateUmariyyatanShares_FullThird(h) ==
    IF IsNull(checkUmariyyatan(h)) THEN Null
    ELSE LET one == Fraction(1, 1)
             spouseShare == IF h.husband THEN Fraction(1, 2) ELSE Fraction(1, 4)
             spouseType == IF h.husband THEN "husband" ELSE "wife"
             remainderAfterSpouse == subtract(one, spouseShare)
             motherShare == Fraction(1, 3)
             fatherShare == subtract(remainderAfterSpouse, motherShare)
         IN [spouseType |-> spouseType, spouseShare |-> spouseShare,
             motherShare |-> motherShare, fatherShare |-> fatherShare,
             normalMotherShare |-> Fraction(1, 3)]

calculateUmariyyatanShares(h) ==
    IF IsNull(checkUmariyyatan(h)) THEN Null
    ELSE LET one == Fraction(1, 1)
             spouseShare == IF h.husband THEN Fraction(1, 2) ELSE Fraction(1, 4)
             spouseType == IF h.husband THEN "husband" ELSE "wife"
             remainderAfterSpouse == subtract(one, spouseShare)
             motherShare == divide(remainderAfterSpouse, Fraction(3, 1))
             fatherShare == subtract(remainderAfterSpouse, motherShare)
         IN [spouseType |-> spouseType, spouseShare |-> spouseShare,
             motherShare |-> motherShare, fatherShare |-> fatherShare,
             normalMotherShare |-> Fraction(1, 3)]

applyUmariyyatan(h) ==
    LET umariyyatan == checkUmariyyatan(h)
    IN IF IsNull(umariyyatan)
       THEN [applied |-> FALSE, caseNumber |-> Null, shares |-> Null,
             notification |-> Null]
       ELSE [applied |-> TRUE, caseNumber |-> umariyyatan.caseNumber,
             shares |-> calculateUmariyyatanShares(h),
             notification |-> Notification("info", "umariyyatan")]

(***************************************************************************)
(* special-cases.js : applySpecialCases                                    *)
(***************************************************************************)
\* Variant of applySpecialCases: Radd is reported even when Awl applied.
applySpecialCases_RaddAfterAwl(h) ==
    LET umariyyatan == applyUmariyyatan(h)
        awl == applyAwl(h)
        radd == applyRadd(h)
    IN IF umariyyatan.applied
       THEN [umariyyatan |-> umariyyatan, awl |-> Null, radd |-> Null,
             notifications |-> <<umariyyatan.notification>>]
       ELSE IF awl.applied
       THEN [umariyyatan |-> umariyyatan, awl |-> awl, radd |-> radd,
             notifications |-> <<awl.notification>>]
       ELSE [umariyyatan |-> umariyyatan, awl |-> awl, radd |-> radd,
             notifications |->
                 IF radd.applied THEN <<radd.notification>> ELSE <<>>]

applySpecialCases(h) ==
    LET umariyyatan == applyUmariyyatan(h)
        awl == applyAwl(h)
        radd == applyRadd(h)
    IN IF umariyyatan.applied
       THEN [umariyyatan |-> umariyyatan, awl |-> Null, radd |-> Null,
             notifications |-> <<umariyyatan.notification>>]
       ELSE IF awl.applied
       THEN [umariyyatan |-> umariyyatan, awl |-> awl, radd |-> Null,
             notifications |-> <<awl.notification>>]
       ELSE [umariyyatan |-> umariyyatan, awl |-> awl, radd |-> radd,
             notifications |->
                 IF radd.applied THEN <<radd.notification>> ELSE <<>>]

(***************************************************************************)
(* blocking.js                                                             *)
(***************************************************************************)
\* A reason string.  The source texts are Russian; each is rendered here by an
\* English text, one per distinct source string.
Text(s) == [text |-> s]

\* Object.keys(BlockingRules), in declaration order.
BlockableHeirTypes ==
    <<"paternalGrandfather", "paternalGrandmother", "grandsonsFromSon",
      "granddaughtersFromSon", "fullBrothers", "fullSisters",
      "paternalBrothers", "paternalSisters">>

HasBlockingRule(heirType) ==
    \E i \in 1..Len(BlockableHeirTypes) : BlockableHeirTypes[i] = heirType

\* BlockingRules[heirType](heirs), for a heirType that has a rule.
\* Variant of BlockingRules: a full brother does not block the paternal sisters.
BlockingRules_SistersPastFullBrother(heirType, h) ==
    CASE heirType = "paternalGrandfather" -> h.father = TRUE
      [] heirType = "paternalGrandmother" -> h.mother = TRUE
      [] heirType = "grandsonsFromSon" -> h.sons > 0
      [] heirType = "granddaughtersFromSon" -> h.sons > 0
      [] heirType = "fullBrothers" ->
            h.father = TRUE \/ h.sons > 0 \/ h.grandsonsFromSon > 0
      [] heirType = "fullSisters" ->
            h.father = TRUE \/ h.sons > 0 \/ h.grandsonsFromSon > 0
      [] heirType = "paternalBrothers" ->
            h.father = TRUE \/ h.sons > 0 \/ h.grandsonsFromSon > 0
            \/ h.fullBrothers > 0
      [] heirType = "paternalSisters" ->
            h.father = TRUE \/ h.sons > 0 \/ h.grandsonsFromSon > 0

BlockingRules(heirType, h) ==
    CASE heirType = "paternalGrandfather" -> h.father = TRUE
      [] heirType = "paternalGrandmother" -> h.mother = TRUE
      [] heirType = "grandsonsFromSon" -> h.sons > 0
      [] heirType = "granddaughtersFromSon" -> h.sons > 0
      [] heirType = "fullBrothers" ->
            h.father = TRUE \/ h.sons > 0 \/ h.grandsonsFromSon > 0
      [] heirType = "fullSisters" ->
            h.father = TRUE \/ h.sons > 0 \/ h.grandsonsFromSon > 0
      [] heirType = "paternalBrothers" ->
            h.father = TRUE \/ h.sons > 0 \/ h.grandsonsFromSon > 0
            \/ h.fullBrothers > 0
      [] heirType = "paternalSisters" ->
            h.father = TRUE \/ h.sons > 0 \/ h.grandsonsFromSon > 0
            \/ h.fullBrothers > 0

SiblingReasons ==
    [father |-> Text("Blocked by the father"),
     sons |-> Text("Blocked by a son"),
     grandsonsFromSon |-> Text("Blocked by a son's son")]

PaternalSiblingReasons ==
    [father |-> Text("Blocked by the father"),
     sons |-> Text("Blocked by a son"),
     grandsonsFromSon |-> Text("Blocked by a son's son"),
     fullBrothers |-> Text("Blocked by a full brother")]

BlockingReasons ==
    [paternalGrandfather |-> [father |-> Text("Blocked by the father")],
     paternalGrandmother |-> [mother |-> Text("Blocked by the mother")],
     grandsonsFromSon |-> [sons |-> Text("Blocked by a son")],
     granddaughtersFromSon |-> [sons |-> Text("Blocked by a son")],
     fullBrothers |-> SiblingReasons,
     fullSisters |-> SiblingReasons,
     paternalBrothers |-> PaternalSiblingReasons,
     paternalSisters |-> PaternalSiblingReasons]

\* Variant of getBlockingReason: for the siblings a son is looked at before the
\* father.
getBlockingReason_SonFirst(heirType, h) ==
    IF heirType \notin DOMAIN BlockingReasons THEN Null
    ELSE LET reasons == BlockingReasons[heirType]
         IN IF heirType = "paternalGrandfather" /\ h.father = TRUE
            THEN reasons.father
            ELSE IF heirType = "paternalGrandmother" /\ h.mother = TRUE
            THEN reasons.mother
            ELSE IF /\ heirType \in {"grandsonsFromSon", "granddaughtersFromSon"}
                    /\ h.sons > 0
            THEN reasons.sons
            ELSE IF heirType \in {"fullBrothers", "fullSisters"}
            THEN (IF h.sons > 0 THEN reasons.sons
                  ELSE IF h.father = TRUE THEN reasons.father
                  ELSE IF h.grandsonsFromSon > 0 THEN reasons.grandsonsFromSon
                  ELSE Null)
            ELSE IF heirType \in {"paternalBrothers", "paternalSisters"}
            THEN (IF h.sons > 0 THEN reasons.sons
                  ELSE IF h.father = TRUE THEN reasons.father
                  ELSE IF h.grandsonsFromSon > 0 THEN reasons.grandsonsFromSon
                  ELSE IF h.fullBrothers > 0 THEN reasons.fullBrothers
                  ELSE Null)
            ELSE Null

\* getBlockingReason(heirType, heirs)
getBlockingReason(heirType, h) ==
    IF heirType \notin DOMAIN BlockingReasons THEN Null
    ELSE LET reasons == BlockingReasons[heirType]
         IN IF heirType = "paternalGrandfather" /\ h.father = TRUE
            THEN reasons.father
            ELSE IF heirType = "paternalGrandmother" /\ h.mother = TRUE
            THEN reasons.mother
            ELSE IF /\ heirType \in {"grandsonsFromSon", "granddaughtersFromSon"}
                    /\ h.sons > 0
            THEN reasons.sons
            ELSE IF heirType \in {"fullBrothers", "fullSisters"}
            THEN (IF h.father = TRUE THEN reasons.father
                  ELSE IF h.sons > 0 THEN reasons.sons
                  ELSE IF h.grandsonsFromSon > 0 THEN reasons.grandsonsFromSon
                  ELSE Null)
            ELSE IF heirType \in {"paternalBrothers", "paternalSisters"}
            THEN (IF h.father = TRUE THEN reasons.father
                  ELSE IF h.sons > 0 THEN reasons.sons
                  ELSE IF h.grandsonsFromSon > 0 THEN reasons.grandsonsFromSon
                  ELSE IF h.fullBrothers > 0 THEN reasons.fullBrothers
                  ELSE Null)
            ELSE Null

\* checkBlocking(heirType, heirs)
checkBlocking(heirType, h) ==
    IF ~HasBlockingRule(heirType) THEN [blocked |-> FALSE, reason |-> Null]
    ELSE IF ~BlockingRules(heirType, h) THEN [blocked |-> FALSE, reason |-> Null]
    ELSE [blocked |-> TRUE, reason |-> getBlockingReason(heirType, h)]

\* getAllBlockings(heirs): one entry per key of BlockingRules.
getAllBlockings(h) ==
    [heirType \in {BlockableHeirTypes[i] : i \in 1..Len(BlockableHeirTypes)} |->
        checkBlocking(heirType, h)]

(***************************************************************************)
(* The orchestrator (computeDistribution): the final fraction of every     *)
(* sharing category.  A fixed share is multiplied by the Awl ratio when    *)
(* Awl applies, or increased by its Radd addend when Radd applies; the     *)
(* residuary shares of calculateAsaba are added; the exception case emits  *)
(* its three shares instead.                                               *)
(***************************************************************************)
\* The raddShares keys that belong to one fixed-share category.
RaddKeysOf(key) ==
    IF key = "maternalSiblings" THEN <<"maternalBrothers", "maternalSisters">>
    ELSE <<key>>

RECURSIVE AddendFrom(_, _, _, _)
AddendFrom(raddShares, keys, i, total) ==
    IF i > Len(keys) THEN total
    ELSE AddendFrom(raddShares, keys, i + 1,
             IF keys[i] \in DOMAIN raddShares
             THEN add(total, raddShares[keys[i]])
             ELSE total)

FinalFixedShare(entry, special) ==
    IF special.awl.applied
    THEN applyAwlToShare(entry.share, special.awl.awlRatio)
    ELSE IF special.radd.applied
    THEN add(entry.share,
             AddendFrom(special.radd.raddShares, RaddKeysOf(entry.key), 1,
                        Fraction(0, 1)))
    ELSE entry.share

ResiduaryEntries(h) ==
    LET asaba == calculateAsaba(h)
    IN IF ~asaba.hasAsaba THEN <<>>
       ELSE <<[key |-> asaba.asabaInfo.key, residuary |-> TRUE,
               rawShare |-> asaba.distribution.maleShare,
               finalShare |-> asaba.distribution.maleShare]>>
            \o (IF asaba.asabaInfo.hasFemales
                THEN <<[key |-> asaba.asabaInfo.femaleType, residuary |-> TRUE,
                        rawShare |-> asaba.distribution.femaleShare,
                        finalShare |-> asaba.distribution.femaleShare]>>
                ELSE <<>>)

RECURSIVE FixedEntriesFrom(_, _, _)
FixedEntriesFrom(fixed, special, i) ==
    IF i > Len(fixed) THEN <<>>
    ELSE <<[key |-> fixed[i].key, residuary |-> FALSE,
            rawShare |-> fixed[i].share,
            finalShare |-> FinalFixedShare(fixed[i], special)]>>
         \o FixedEntriesFrom(fixed, special, i + 1)

\* The entries for the corrections `special` and the fixed shares `fixed` of h.
DistributionOf(h, special, fixed) ==
    IF special.umariyyatan.applied
    THEN [correction |-> special,
          entries |->
              <<[key |-> special.umariyyatan.shares.spouseType,
                 residuary |-> FALSE,
                 rawShare |-> special.umariyyatan.shares.spouseShare,
                 finalShare |-> special.umariyyatan.shares.spouseShare],
                [key |-> "mother", residuary |-> FALSE,
                 rawShare |-> special.umariyyatan.shares.motherShare,
                 finalShare |-> special.umariyyatan.shares.motherShare],
                [key |-> "father", residuary |-> FALSE,
                 rawShare |-> special.umariyyatan.shares.fatherShare,
                 finalShare |-> special.umariyyatan.shares.fatherShare]>>]
    ELSE [correction |-> special,
          entries |-> FixedEntriesFrom(fixed, special, 1) \o ResiduaryEntries(h)]

\* The corrections and the fixed shares are computed once, then folded into
\* the entries.
computeDistribution(h) ==
    CHOOSE d \in {DistributionOf(h, special, fixed) :
                     special \in {applySpecialCases(h)},
                     fixed \in {FixedContributions(h)}} : TRUE

(***************************************************************************)
(* The state machine: one composition per request, one operation applied.  *)
(***************************************************************************)
Init ==
    /\ heirs = NoHeirs
    /\ op = "input"
    /\ arg = Null
    /\ result = Null

\* The input form adds one person to the composition before the engine is called.
AddHeir ==
    \E k \in Kinds :
        /\ op = "input"
        /\ HeadCount(heirs) < MaxHeirs
        /\ CanAdd(heirs, k)
        /\ heirs' = WithHeir(heirs, k)
        /\ UNCHANGED <<op, arg, result>>

\* The call `name(heirs)` returns `value`.
Call(name, value) ==
    /\ op = "input"
    /\ op' = name
    /\ arg' = Null
    /\ result' = value
    /\ UNCHANGED heirs

NeedsAwl == Call("needsAwl", [value |-> needsAwl(heirs)])

ApplyAwl == Call("applyAwl", applyAwl(heirs))

NeedsRadd == Call("needsRadd", [value |-> needsRadd(heirs)])

ApplyRadd == Call("applyRadd", applyRadd(heirs))

ApplyUmariyyatan == Call("applyUmariyyatan", applyUmariyyatan(heirs))

ApplySpecialCases == Call("applySpecialCases", applySpecialCases(heirs))

ComputeDistribution == Call("computeDistribution", computeDistribution(heirs))

Next ==
    \/ AddHeir
    \/ NeedsAwl
    \/ ApplyAwl
    \/ NeedsRadd
    \/ ApplyRadd
    \/ ApplyUmariyyatan
    \/ ApplySpecialCases
    \/ ComputeDistribution

Spec == Init /\ [][Next]_vars

\* The heirType arguments checkBlocking is called with: every category.
CheckBlocking ==
    \E heirType \in Kinds :
        /\ op = "input"
        /\ op' = "checkBlocking"
        /\ arg' = [heirType |-> heirType]
        /\ result' = checkBlocking(heirType, heirs)
        /\ UNCHANGED heirs

GetAllBlockings == Call("getAllBlockings", getAllBlockings(heirs))

NextBlocking ==
    \/ AddHeir
    \/ CheckBlocking
    \/ GetAllBlockings

SpecBlocking == Init /\ [][NextBlocking]_vars

(***************************************************************************)
(* The share calculators of shares.js, called on the composition entered.  *)
(***************************************************************************)
\* The ids of HeirTypes that carry a getShare the model translates.
HeirTypeIds ==
    {"husband", "wife", "sons", "daughters", "grandsonsFromSon",
     "granddaughtersFromSon", "father", "mother", "paternalGrandfather",
     "paternalGrandmother", "maternalGrandmother", "fullBrothers",
     "fullSisters", "paternalBrothers", "paternalSisters", "maternalBrothers",
     "maternalSisters"}

\* HeirTypes[...].getShare(heirs), selected by the heir type's field name.
getShare(heirType, h) ==
    CASE heirType = "husband" -> HUSBAND_getShare(h)
      [] heirType = "wife" -> WIFE_getShare(h)
      [] heirType = "sons" -> SON_getShare(h)
      [] heirType = "daughters" -> DAUGHTER_getShare(h)
      [] heirType = "grandsonsFromSon" -> GRANDSON_FROM_SON_getShare(h)
      [] heirType = "granddaughtersFromSon" -> GRANDDAUGHTER_FROM_SON_getShare(h)
      [] heirType = "father" -> FATHER_getShare(h)
      [] heirType = "mother" -> MOTHER_getShare(h)
      [] heirType = "paternalGrandfather" -> PATERNAL_GRANDFATHER_getShare(h)
      [] heirType = "paternalGrandmother" -> PATERNAL_GRANDMOTHER_getShare(h)
      [] heirType = "maternalGrandmother" -> MATERNAL_GRANDMOTHER_getShare(h)
      [] heirType = "fullBrothers" -> FULL_BROTHER_getShare(h)
      [] heirType = "fullSisters" -> FULL_SISTER_getShare(h)
      [] heirType = "paternalBrothers" -> PATERNAL_BROTHER_getShare(h)
      [] heirType = "paternalSisters" -> PATERNAL_SISTER_getShare(h)
      [] heirType = "maternalBrothers" -> MATERNAL_BROTHER_getShare(h)
      [] heirType = "maternalSisters" -> MATERNAL_SISTER_getShare(h)

GetShare ==
    \E heirType \in HeirTypeIds :
        /\ op = "input"
        /\ op' = "getShare"
        /\ arg' = [heirType |-> heirType]
        /\ result' = getShare(heirType, heirs)
        /\ UNCHANGED heirs

DetermineAsaba == Call("determineAsaba", determineAsaba(heirs))

CalculateAsaba == Call("calculateAsaba", calculateAsaba(heirs))

\* distributeAsaba called with the tier of the composition and a remainder that
\* is the composition's own, its negation, or zero.
DistributeAsaba ==
    \E remainder \in {calculateRemainder(heirs),
                      subtract(Fraction(0, 1), calculateRemainder(heirs)),
                      Fraction(0, 1)} :
        /\ op = "input"
        /\ op' = "distributeAsaba"
        /\ arg' = [remainder |-> remainder, asabaInfo |-> determineAsaba(heirs)]
        /\ result' = distributeAsaba(remainder, determineAsaba(heirs))
        /\ UNCHANGED heirs

CalculateFixedSharesTotal ==
    Call("calculateFixedSharesTotal", calculateFixedSharesTotal(heirs))

CalculateMotherShare == Call("calculateMotherShare", calculateMotherShare(heirs))

CalculateFatherShare == Call("calculateFatherShare", calculateFatherShare(heirs))

CalculateGrandfatherShare ==
    Call("calculateGrandfatherShare", calculateGrandfatherShare(heirs))

CalculateGrandmotherShare ==
    Call("calculateGrandmotherShare", calculateGrandmotherShare(heirs))

CalculateGranddaughterShare ==
    Call("calculateGranddaughterShare", calculateGranddaughterShare(heirs))

CalculateDaughterShare ==
    Call("calculateDaughterShare", calculateDaughterShare(heirs))

CalculateHusbandShare ==
    Call("calculateHusbandShare", calculateHusbandShare(heirs))

CalculateWifeShare == Call("calculateWifeShare", calculateWifeShare(heirs))

NextShares ==
    \/ AddHeir
    \/ GetShare
    \/ DetermineAsaba
    \/ CalculateAsaba
    \/ DistributeAsaba
    \/ CalculateFixedSharesTotal
    \/ CalculateMotherShare
    \/ CalculateFatherShare
    \/ CalculateGrandfatherShare
    \/ CalculateGrandmotherShare
    \/ CalculateGranddaughterShare
    \/ CalculateDaughterShare
    \/ CalculateHusbandShare
    \/ CalculateWifeShare

SpecShares == Init /\ [][NextShares]_vars

(***************************************************************************)
(* The engine's entry points side by side on one composition: the share of *)
(* a category, the blocking of a category, the fixed-share total, the      *)
(* residuary distribution and the special cases.                           *)
(***************************************************************************)
NextEngine ==
    \/ AddHeir
    \/ GetShare
    \/ CheckBlocking
    \/ CalculateFixedSharesTotal
    \/ CalculateAsaba
    \/ ApplySpecialCases

SpecEngine == Init /\ [][NextEngine]_vars

(***************************************************************************)
(* The Fraction class on its own: two pairs of integers are drawn, the     *)
(* constructor is called on them, and one method is applied.               *)
(***************************************************************************)
InitFraction ==
    /\ heirs = NoHeirs
    /\ op = "input"
    /\ arg \in [an : -MaxNumerator..MaxNumerator,
                ad : -MaxDenominator..MaxDenominator,
                bn : -MaxNumerator..MaxNumerator,
                bd : -MaxDenominator..MaxDenominator]
    /\ result = Null

\* The receiver and the argument of a method call, as constructed.
OperandA == Fraction(arg.an, arg.ad)

OperandB == Fraction(arg.bn, arg.bd)

\* A method call: both operands exist, and neither is assigned to.
Method(name, value) ==
    /\ op = "input"
    /\ ~IsThrown(OperandA)
    /\ ~IsThrown(OperandB)
    /\ op' = name
    /\ result' = value
    /\ UNCHANGED <<heirs, arg>>

Construct ==
    /\ op = "input"
    /\ op' = "construct"
    /\ result' = Fraction(arg.an, arg.ad)
    /\ UNCHANGED <<heirs, arg>>

Simplify == Method("simplify", simplify(OperandA))

Add == Method("add", add(OperandA, OperandB))

Subtract == Method("subtract", subtract(OperandA, OperandB))

Multiply == Method("multiply", multiply(OperandA, OperandB))

Divide == Method("divide", divide(OperandA, OperandB))

NextFraction ==
    \/ Construct
    \/ Simplify
    \/ Add
    \/ Subtract
    \/ Multiply
    \/ Divide

SpecFraction == InitFraction /\ [][NextFraction]_vars

(***************************************************************************)
(* Properties.  Helpers shared by the statements below.                    *)
(***************************************************************************)
Half == [num |-> 1, den |-> 2]

Third == [num |-> 1, den |-> 3]

Quarter == [num |-> 1, den |-> 4]

Sixth == [num |-> 1, den |-> 6]

Unit == [num |-> 1, den |-> 1]

Nothing == [num |-> 0, den |-> 1]

\* A fraction is greater than 1 / greater than 0 (its denominator is positive).
ExceedsOne(f) == f.num > f.den

IsPositive(f) == f.num > 0

RECURSIVE TotalFinalFrom(_, _)
TotalFinalFrom(entries, i) ==
    IF i > Len(entries) THEN Nothing
    ELSE add(entries[i].finalShare, TotalFinalFrom(entries, i + 1))

RECURSIVE TotalAddendsFrom(_, _, _)
TotalAddendsFrom(raddShares, recipients, i) ==
    IF i > Len(recipients) THEN Nothing
    ELSE add(raddShares[recipients[i]],
             TotalAddendsFrom(raddShares, recipients, i + 1))

\* Some heir is present and not blocked.
AnyHeirUnblocked(h) ==
    \E k \in Kinds : Present(h, k) /\ ~checkBlocking(k, h).blocked

C2_RaddAddendsSumToRemainder ==
    (op = "applyRadd" /\ result.applied)
        => /\ result.remainder = calculateRemainder(heirs)
           /\ TotalAddendsFrom(result.raddShares, result.recipients, 1)
                  = result.remainder

(***************************************************************************)
(* C3: applySpecialCases applies at most one correction, in the priority   *)
(* Umariyyatan, Awl, Radd: awl and radd stay null when Umariyyatan         *)
(* applies, radd stays null when Awl applies, Radd is evaluated only when  *)
(* neither of the other two applied, and notifications holds one entry     *)
(* when a correction applied and none otherwise.                           *)
(***************************************************************************)
C3_AtMostOneCorrection ==
    op = "applySpecialCases" =>
        LET u == result.umariyyatan.applied
            a == ~IsNull(result.awl) /\ result.awl.applied
            r == ~IsNull(result.radd) /\ result.radd.applied
        IN /\ u <=> ~IsNull(checkUmariyyatan(heirs))
           /\ IsNull(result.awl) <=> u
           /\ IsNull(result.radd) <=> (u \/ a)
           /\ a <=> (~u /\ ExceedsOne(calculateFixedSharesTotal(heirs)))
           /\ r <=> (~u /\ ~a /\ applyRadd(heirs).applied)
           /\ Flag(u) + Flag(a) + Flag(r) <= 1
           /\ Len(result.notifications) = Flag(u) + Flag(a) + Flag(r)
           /\ u => result.notifications = <<Notification("info", "umariyyatan")>>
           /\ a => result.notifications = <<Notification("warning", "awl")>>
           /\ r => result.notifications = <<Notification("info", "radd")>>

\* Awl applied, so Radd was not evaluated.
C3_Witness ==
    /\ op = "applySpecialCases"
    /\ ~IsNull(result.awl)
    /\ result.awl.applied
    /\ IsNull(result.radd)
    /\ Len(result.notifications) = 1

(***************************************************************************)
(* C4: needsAwl and applyAwl(heirs).applied hold iff the fixed-share total *)
(* exceeds 1; then awlRatio is exactly 1 / total, the adjusted total is 1, *)
(* the reduced shares sum to 1 and the ratio of any two non-zero shares is *)
(* unchanged; when the total is at most 1 the ratio is 1.                  *)
(***************************************************************************)
RECURSIVE ReducedTotalFrom(_, _, _)
ReducedTotalFrom(entries, awlRatio, i) ==
    IF i > Len(entries) THEN Nothing
    ELSE add(applyAwlToShare(entries[i].share, awlRatio),
             ReducedTotalFrom(entries, awlRatio, i + 1))

C4_AwlLaw ==
    LET total == calculateFixedSharesTotal(heirs)
        fixed == FixedContributions(heirs)
    IN /\ op = "needsAwl" => (result.value <=> ExceedsOne(total))
       /\ op = "applyAwl" =>
            /\ result.applied <=> ExceedsOne(total)
            /\ result.originalTotal = total
            /\ result.applied =>
                  /\ multiply(result.awlRatio, total) = Unit
                  /\ result.awlRatio = [num |-> total.den, den |-> total.num]
                  /\ result.adjustedTotal = Unit
                  /\ ReducedTotalFrom(fixed, result.awlRatio, 1) = Unit
                  /\ \A i, j \in 1..Len(fixed) :
                        (~isZero(fixed[i].share) /\ ~isZero(fixed[j].share))
                        => divide(applyAwlToShare(fixed[i].share, result.awlRatio),
                                  applyAwlToShare(fixed[j].share, result.awlRatio))
                           = divide(fixed[i].share, fixed[j].share)
            /\ ~result.applied =>
                  /\ result.awlRatio = Unit
                  /\ calculateAwlRatio(heirs) = Unit

\* Awl applied to a composition with at least three fixed shares.
C4_Witness ==
    /\ op = "applyAwl"
    /\ result.applied
    /\ Len(FixedContributions(heirs)) >= 3
    /\ result.awlRatio # Unit

NonZeroFixedRecipients(h) ==
    LET fixed == FixedContributions(h)
        keys == {fixed[i].key : i \in {j \in 1..Len(fixed) :
                                          ~isZero(fixed[j].share)}}
    IN (keys \ {"husband", "wife", "maternalSiblings"})
       \cup (IF "maternalSiblings" \in keys
             THEN {k \in {"maternalBrothers", "maternalSisters"} : h[k] > 0}
             ELSE {})

C6_RaddRecipients ==
    (op = "applyRadd" /\ result.applied) =>
        LET listed == {result.recipients[i] : i \in 1..Len(result.recipients)}
        IN /\ listed \cap {"husband", "wife"} = {}
           /\ \A r \in listed :
                 IsPositive(getRecipientRaddShare(r, heirs, <<r>>))
           /\ listed = NonZeroFixedRecipients(heirs)

(***************************************************************************)
(* C7: checkUmariyyatan is non-null iff exactly one spouse kind is         *)
(* present, both parents are present, and there are no descendants, none   *)
(* of the six sibling kinds, no paternal grandfather and no grandmother;   *)
(* caseNumber is 1 with a husband and 2 with a wife.                       *)
(***************************************************************************)
UmariyyatanCondition(h) ==
    /\ Flag(h.husband) + Flag(h.wife) = 1
    /\ h.father /\ h.mother
    /\ h.sons + h.daughters + h.grandsonsFromSon + h.granddaughtersFromSon = 0
    /\ h.fullBrothers + h.fullSisters + h.paternalBrothers + h.paternalSisters
       + h.maternalBrothers + h.maternalSisters = 0
    /\ ~h.paternalGrandfather
    /\ ~h.paternalGrandmother
    /\ ~h.maternalGrandmother

C7_UmariyyatanCondition ==
    op = "applyUmariyyatan" =>
        /\ result.applied <=> UmariyyatanCondition(heirs)
        /\ ~IsNull(checkUmariyyatan(heirs)) <=> UmariyyatanCondition(heirs)
        /\ result.applied =>
              result.caseNumber = (IF heirs.husband THEN 1 ELSE 2)
        /\ ~result.applied => IsNull(result.caseNumber)

\* The husband case.
C7_Witness ==
    /\ op = "applyUmariyyatan"
    /\ result.applied
    /\ result.caseNumber = 1
    /\ heirs.husband

(***************************************************************************)
(* C8: in the exception case the shares are husband 1/2, mother 1/6,       *)
(* father 1/3, or wife 1/4, mother 1/4, father 1/2; they sum to 1 and the  *)
(* mother's share is strictly below her normal third.                      *)
(***************************************************************************)
C8_UmariyyatanShares ==
    (op = "applyUmariyyatan" /\ result.applied) =>
        LET sh == result.shares
        IN /\ heirs.husband =>
                 /\ sh.spouseType = "husband"
                 /\ sh.spouseShare = Half
                 /\ sh.motherShare = Sixth
                 /\ sh.fatherShare = Third
           /\ ~heirs.husband =>
                 /\ sh.spouseType = "wife"
                 /\ sh.spouseShare = Quarter
                 /\ sh.motherShare = Quarter
                 /\ sh.fatherShare = Half
           /\ add(add(sh.spouseShare, sh.motherShare), sh.fatherShare) = Unit
           /\ sh.motherShare.num * 3 < sh.motherShare.den
           /\ lessThan(sh.motherShare, sh.normalMotherShare)

\* The wife case.
C8_Witness ==
    /\ op = "applyUmariyyatan"
    /\ result.applied
    /\ heirs.wife
    /\ result.shares.motherShare = Quarter

(***************************************************************************)
(* C9: checkBlocking reports the paternal grandfather blocked iff the      *)
(* father is present, the paternal grandmother iff the mother is present,  *)
(* son's sons and son's daughters iff a son is present, full brothers and  *)
(* sisters iff the father, a son or a son's son is present, paternal       *)
(* brothers and sisters iff any of those or a full brother is present.     *)
(***************************************************************************)
C9_BlockingRules ==
    op = "checkBlocking" =>
        LET t == arg.heirType
            agnateAbove == heirs.father \/ heirs.sons > 0
                           \/ heirs.grandsonsFromSon > 0
        IN /\ t = "paternalGrandfather" => (result.blocked <=> heirs.father)
           /\ t = "paternalGrandmother" => (result.blocked <=> heirs.mother)
           /\ t \in {"grandsonsFromSon", "granddaughtersFromSon"}
                 => (result.blocked <=> heirs.sons > 0)
           /\ t \in {"fullBrothers", "fullSisters"}
                 => (result.blocked <=> agnateAbove)
           /\ t \in {"paternalBrothers", "paternalSisters"}
                 => (result.blocked <=> (agnateAbove \/ heirs.fullBrothers > 0))

\* Paternal sisters blocked by a full brother alone.
C9_Witness ==
    /\ op = "checkBlocking"
    /\ arg.heirType = "paternalSisters"
    /\ heirs.paternalSisters > 0
    /\ heirs.fullBrothers > 0
    /\ ~heirs.father /\ heirs.sons = 0 /\ heirs.grandsonsFromSon = 0
    /\ result.blocked

(***************************************************************************)
(* C10: getAllBlockings is total over the blockable categories; every      *)
(* entry is {blocked, reason} with a null reason when not blocked and,     *)
(* when blocked, the reason of the first matching blocker in the order     *)
(* father, son, son's son, full brother; a category without a blocking     *)
(* rule is always reported not blocked.                                    *)
(***************************************************************************)
\* The blockers of a category, in the order of precedence.
BlockersOf(t) ==
    CASE t = "paternalGrandfather" -> <<"father">>
      [] t = "paternalGrandmother" -> <<"mother">>
      [] t \in {"grandsonsFromSon", "granddaughtersFromSon"} -> <<"sons">>
      [] t \in {"fullBrothers", "fullSisters"} ->
            <<"father", "sons", "grandsonsFromSon">>
      [] t \in {"paternalBrothers", "paternalSisters"} ->
            <<"father", "sons", "grandsonsFromSon", "fullBrothers">>

ReasonOfBlocker(b) ==
    CASE b = "father" -> [text |-> "Blocked by the father"]
      [] b = "mother" -> [text |-> "Blocked by the mother"]
      [] b = "sons" -> [text |-> "Blocked by a son"]
      [] b = "grandsonsFromSon" -> [text |-> "Blocked by a son's son"]
      [] b = "fullBrothers" -> [text |-> "Blocked by a full brother"]

\* The entry expected for category t: decided by the first blocker present.
ExpectedBlocking(t, h) ==
    LET blockers == BlockersOf(t)
        hits == {i \in 1..Len(blockers) : Present(h, blockers[i])}
    IN IF hits = {} THEN [blocked |-> FALSE, reason |-> Null]
       ELSE [blocked |-> TRUE,
             reason |-> ReasonOfBlocker(
                 blockers[CHOOSE i \in hits : \A j \in hits : i <= j])]

C10_AllBlockings ==
    /\ op = "getAllBlockings" =>
          /\ DOMAIN result =
                {"paternalGrandfather", "paternalGrandmother",
                 "grandsonsFromSon", "granddaughtersFromSon", "fullBrothers",
                 "fullSisters", "paternalBrothers", "paternalSisters"}
          /\ \A t \in DOMAIN result :
                /\ DOMAIN result[t] = {"blocked", "reason"}
                /\ result[t] = ExpectedBlocking(t, heirs)
                /\ ~result[t].blocked => IsNull(result[t].reason)
    /\ (op = "checkBlocking" /\ ~HasBlockingRule(arg.heirType)) =>
          result = [blocked |-> FALSE, reason |-> Null]

\* Father and son both present: the father is the reason that is reported.
C10_Witness ==
    /\ op = "getAllBlockings"
    /\ heirs.father
    /\ heirs.sons > 0
    /\ heirs.fullBrothers > 0
    /\ result["paternalSisters"].blocked
    /\ result["paternalSisters"].reason = [text |-> "Blocked by the father"]

(***************************************************************************)
(* C11: determineAsaba returns exactly one residuary tier, the first       *)
(* category in the order sons, son's sons, father, paternal grandfather,   *)
(* full brothers, paternal brothers, full brothers' sons, paternal         *)
(* brothers' sons, full uncles, paternal uncles that is present and        *)
(* unblocked; it returns null iff no category of the list is present and   *)
(* unblocked.                                                              *)
(***************************************************************************)
ResiduaryOrder ==
    <<"sons", "grandsonsFromSon", "father", "paternalGrandfather",
      "fullBrothers", "paternalBrothers", "nephewsFullBrothers",
      "nephewsPaternalBrothers", "unclesFull", "unclesPaternal">>

\* The positions of the order whose category is present and not blocked.
ResiduaryCandidates(h) ==
    {i \in 1..Len(ResiduaryOrder) :
        /\ Present(h, ResiduaryOrder[i])
        /\ ~checkBlocking(ResiduaryOrder[i], h).blocked}

C11_FirstResiduaryTier ==
    op = "determineAsaba" =>
        LET candidates == ResiduaryCandidates(heirs)
        IN /\ IsNull(result) <=> candidates = {}
           /\ candidates # {} =>
                 /\ result.key =
                       ResiduaryOrder[CHOOSE i \in candidates :
                                         \A j \in candidates : i <= j]
                 /\ result.maleCount =
                       (IF result.key \in BooleanFields THEN 1
                        ELSE heirs[result.key])

\* Several residuary categories present, the nearest one blocked by none.
C11_Witness ==
    /\ op = "determineAsaba"
    /\ heirs.father
    /\ heirs.fullBrothers > 0
    /\ heirs.unclesFull > 0
    /\ result.key = "father"

(***************************************************************************)
(* C12: whenever the residuary tier has both its male category and its     *)
(* paired female category present (sons/daughters, son's sons/son's        *)
(* daughters, full brothers/full sisters, paternal brothers/paternal       *)
(* sisters) and the remainder is non-zero, the per-male share is exactly   *)
(* twice the per-female share.                                             *)
(***************************************************************************)
\* The female category paired with a residuary tier, "none" when it has none.
PairedFemale(key) ==
    CASE key = "sons" -> "daughters"
      [] key = "grandsonsFromSon" -> "granddaughtersFromSon"
      [] key = "fullBrothers" -> "fullSisters"
      [] key = "paternalBrothers" -> "paternalSisters"
      [] OTHER -> "none"

\* The tier has its paired female category present in composition h.
TierHasFemales(h, key) ==
    PairedFemale(key) # "none" /\ h[PairedFemale(key)] > 0

\* Fraction m is exactly twice fraction f (denominators are positive).
IsTwice(m, f) == m.num * f.den = 2 * f.num * m.den

C12_MaleTwiceFemale ==
    /\ (/\ op = "distributeAsaba"
        /\ ~IsNull(arg.asabaInfo)
        /\ TierHasFemales(heirs, arg.asabaInfo.key)
        /\ arg.remainder.num # 0)
       => /\ IsTwice(result.perMaleShare, result.perFemaleShare)
          /\ result.perFemaleShare.num # 0
    /\ (/\ op = "calculateAsaba"
        /\ result.hasAsaba
        /\ TierHasFemales(heirs, result.asabaInfo.key))
       => /\ IsTwice(result.distribution.perMaleShare,
                     result.distribution.perFemaleShare)
          /\ result.distribution.perFemaleShare.num # 0

\* Two sons and a daughter: a son's unit is twice hers.
C12_Witness ==
    /\ op = "calculateAsaba"
    /\ result.hasAsaba
    /\ result.asabaInfo.key = "sons"
    /\ heirs.sons = 2
    /\ heirs.daughters = 1
    /\ result.distribution.perFemaleShare.num > 0

(***************************************************************************)
(* C13: calculateAsaba reports hasAsaba = false with no distribution       *)
(* whenever no residuary tier exists or the remainder is zero or negative; *)
(* otherwise hasAsaba = true, maleShare + femaleShare equals the remainder *)
(* exactly, and when no female counterpart is present each male receives   *)
(* remainder / male head-count.                                            *)
(***************************************************************************)
C13_CalculateAsaba ==
    op = "calculateAsaba" =>
        LET candidates == ResiduaryCandidates(heirs)
            rem == calculateRemainder(heirs)
            none == candidates = {} \/ rem.num <= 0
        IN /\ result.remainder = rem
           /\ none => (~result.hasAsaba /\ IsNull(result.distribution)
                       /\ IsNull(result.asabaInfo))
           /\ ~none =>
                 LET d == result.distribution
                     info == result.asabaInfo
                 IN /\ result.hasAsaba
                    /\ add(d.maleShare, d.femaleShare) = rem
                    /\ ~TierHasFemales(heirs, info.key) =>
                          /\ d.femaleShare = Nothing
                          /\ d.maleShare = rem
                          /\ d.perMaleShare.num * rem.den * info.maleCount
                                = rem.num * d.perMaleShare.den
                          /\ d.perMaleShare
                                = divide(rem, [num |-> info.maleCount, den |-> 1])

\* Three full brothers alone share the whole estate, a third each.
C13_Witness ==
    /\ op = "calculateAsaba"
    /\ result.hasAsaba
    /\ heirs.fullBrothers = 3
    /\ heirs.fullSisters = 0
    /\ result.distribution.perMaleShare = Third

(***************************************************************************)
(* C14 (as stated): for husband + two daughters + mother and nobody else,  *)
(* the fixed-share total before correction is 1/2 + 2/3 + 1/6 = 8/6, Awl   *)
(* applies with reduction ratio 3/4, and the adjusted total is exactly 1.  *)
(***************************************************************************)
HusbandTwoDaughtersMother ==
    [NoHeirs EXCEPT !.husband = TRUE, !.daughters = 2, !.mother = TRUE]

Twelfth == [num |-> 1, den |-> 12]

C16_ShareRule(share) ==
    /\ heirs.grandsonsFromSon > 0 => IsNull(share)
    /\ heirs.grandsonsFromSon = 0 =>
          /\ ~IsNull(share)
          /\ share = Sixth <=> heirs.daughters = 1
          /\ heirs.daughters >= 2 => share = Nothing
          /\ heirs.daughters = 0 => share.num > 0

C16_SonsDaughters ==
    /\ (/\ op = "getShare"
        /\ arg.heirType = "granddaughtersFromSon"
        /\ heirs.sons = 0)
       => C16_ShareRule(result)
    /\ (/\ op = "calculateGranddaughterShare"
        /\ heirs.sons = 0
        /\ heirs.granddaughtersFromSon > 0)
       => /\ ~IsNull(result)
          /\ C16_ShareRule(result.share)
          /\ result.isAsaba <=> heirs.grandsonsFromSon > 0
          /\ result.count = heirs.granddaughtersFromSon

\* Two daughters leave nothing for the son's daughter.
C16_Witness ==
    /\ op = "calculateGranddaughterShare"
    /\ heirs.sons = 0
    /\ heirs.daughters = 2
    /\ heirs.granddaughtersFromSon > 0
    /\ heirs.grandsonsFromSon = 0
    /\ result.share = Nothing

(***************************************************************************)
(* C17: with no brother of the same parentage, full sisters take 1/2 when  *)
(* exactly one and 2/3 in total when two or more; paternal sisters follow  *)
(* the same pattern when no full sister exists, take 1/6 when exactly one  *)
(* full sister exists and 0 when two or more full sisters exist; a sister  *)
(* category has no fixed share (is residuary) when a brother of the same   *)
(* parentage is present.                                                   *)
(***************************************************************************)
TwoThirds == [num |-> 2, den |-> 3]

\* The share the rule gives the full / the paternal sisters of composition h.
FullSistersRule(h) ==
    IF h.fullBrothers > 0 THEN Null
    ELSE IF h.fullSisters = 1 THEN Half ELSE TwoThirds

PaternalSistersRule(h) ==
    IF h.paternalBrothers > 0 THEN Null
    ELSE IF h.fullSisters = 1 THEN Sixth
    ELSE IF h.fullSisters >= 2 THEN Nothing
    ELSE IF h.paternalSisters = 1 THEN Half ELSE TwoThirds

\* The shares entered in the fixed total under a key.
ContributionsOf(h, key) ==
    LET fixed == FixedContributions(h)
    IN {fixed[i].share : i \in {j \in 1..Len(fixed) : fixed[j].key = key}}

C17_Sisters ==
    /\ (op = "getShare" /\ arg.heirType = "fullSisters"
        /\ heirs.fullSisters > 0)
       => result = FullSistersRule(heirs)
    /\ (op = "getShare" /\ arg.heirType = "paternalSisters"
        /\ heirs.paternalSisters > 0)
       => result = PaternalSistersRule(heirs)
    /\ op = "calculateFixedSharesTotal" =>
          /\ (heirs.fullSisters > 0
              /\ ~checkBlocking("fullSisters", heirs).blocked)
             => ContributionsOf(heirs, "fullSisters")
                   = {FullSistersRule(heirs)} \ {Null}
          /\ (heirs.paternalSisters > 0
              /\ ~checkBlocking("paternalSisters", heirs).blocked)
             => ContributionsOf(heirs, "paternalSisters")
                   = {PaternalSistersRule(heirs)} \ {Null}

\* One paternal sister beside one full sister: the sixth that tops up 2/3.
C17_Witness ==
    /\ op = "getShare"
    /\ arg.heirType = "paternalSisters"
    /\ heirs.paternalSisters = 1
    /\ heirs.fullSisters = 1
    /\ heirs.paternalBrothers = 0
    /\ result = Sixth

(***************************************************************************)
(* C18: maternal brothers and sisters inherit only when the father and all *)
(* descendants are absent; then they receive together 1/6 if there is      *)
(* exactly one maternal sibling and 1/3 in total if there are two or more, *)
(* and this pooled share enters the fixed-share total exactly once;        *)
(* otherwise their share is 0.                                             *)
(***************************************************************************)
MaternalSiblingsRule(h) ==
    IF h.father \/ h.sons + h.daughters + h.grandsonsFromSon
                   + h.granddaughtersFromSon > 0
    THEN Nothing
    ELSE IF h.maternalBrothers + h.maternalSisters = 1 THEN Sixth ELSE Third

C19_AscendantRule(r) ==
    LET males == heirs.sons + heirs.grandsonsFromSon > 0
        females == heirs.daughters + heirs.granddaughtersFromSon > 0
    IN /\ males => (r.fixedShare = Sixth /\ ~r.isAsaba /\ ~r.asabaWithFixed)
       /\ (~males /\ females)
             => (r.fixedShare = Sixth /\ r.isAsaba /\ r.asabaWithFixed)
       /\ (~males /\ ~females)
             => (IsNull(r.fixedShare) /\ r.isAsaba /\ ~r.asabaWithFixed)

C19_FatherAndGrandfather ==
    /\ op = "calculateFatherShare" =>
          /\ C19_AscendantRule(result)
          /\ heirs.father =>
                /\ result.isAsaba <=> determineAsaba(heirs).key = "father"
                /\ ContributionsOf(heirs, "father") = {result.fixedShare} \ {Null}
    /\ op = "calculateGrandfatherShare" =>
          /\ C19_AscendantRule(result)
          /\ (heirs.paternalGrandfather /\ ~heirs.father) =>
                /\ result.isAsaba
                      <=> determineAsaba(heirs).key = "paternalGrandfather"
                /\ ContributionsOf(heirs, "paternalGrandfather")
                      = {result.fixedShare} \ {Null}
          /\ heirs.father => ContributionsOf(heirs, "paternalGrandfather") = {}

\* The father beside a daughter only: the sixth and the residue.
C19_Witness ==
    /\ op = "calculateFatherShare"
    /\ heirs.father
    /\ heirs.daughters > 0
    /\ heirs.sons = 0
    /\ heirs.grandsonsFromSon = 0
    /\ result.fixedShare = Sixth
    /\ result.asabaWithFixed

(***************************************************************************)
(* C20: the mother's share is 1/6 if any descendant (son, daughter, son's  *)
(* son, son's daughter) is present or the total number of siblings of all  *)
(* six kinds is at least two, and 1/3 otherwise.                           *)
(***************************************************************************)
C20_MotherShare ==
    LET descendants == heirs.sons + heirs.daughters + heirs.grandsonsFromSon
                       + heirs.granddaughtersFromSon
        siblings == heirs.fullBrothers + heirs.fullSisters
                    + heirs.paternalBrothers + heirs.paternalSisters
                    + heirs.maternalBrothers + heirs.maternalSisters
        expected == IF descendants > 0 \/ siblings >= 2 THEN Sixth ELSE Third
    IN /\ op = "calculateMotherShare" => result = expected
       /\ (op = "getShare" /\ arg.heirType = "mother") => result = expected
       /\ (op = "calculateFixedSharesTotal" /\ heirs.mother)
             => ContributionsOf(heirs, "mother") = {expected}

\* Two siblings of different kinds and no descendant: the mother drops to 1/6.
C20_Witness ==
    /\ op = "calculateMotherShare"
    /\ heirs.mother
    /\ heirs.fullSisters = 1
    /\ heirs.maternalBrothers = 1
    /\ ~hasChildren(heirs)
    /\ result = Sixth

(***************************************************************************)
(* C21: with no son present, a sole daughter's fixed share is 1/2 and two  *)
(* or more daughters share 2/3 in total, each getting 2/3 divided by the   *)
(* number of daughters; whenever a son is present the daughters have no    *)
(* fixed share and are residuary with the sons.                            *)
(***************************************************************************)
C21_Daughters ==
    /\ (op = "getShare" /\ arg.heirType = "daughters" /\ heirs.daughters > 0)
       => result = (IF heirs.sons > 0 THEN Null
                    ELSE IF heirs.daughters = 1 THEN Half ELSE TwoThirds)
    /\ (op = "calculateDaughterShare" /\ heirs.daughters > 0) =>
          /\ ~IsNull(result)
          /\ result.count = heirs.daughters
          /\ result.isAsaba <=> heirs.sons > 0
          /\ heirs.sons > 0 =>
                /\ IsNull(result.share)
                /\ IsNull(result.perPersonShare)
                /\ ContributionsOf(heirs, "daughters") = {}
                /\ determineAsaba(heirs).key = "sons"
                /\ determineAsaba(heirs).femaleCount = heirs.daughters
          /\ heirs.sons = 0 =>
                /\ result.share = (IF heirs.daughters = 1 THEN Half ELSE TwoThirds)
                /\ result.perPersonShare.num * result.share.den * heirs.daughters
                      = result.share.num * result.perPersonShare.den
                /\ ContributionsOf(heirs, "daughters") = {result.share}

\* Three daughters and no son: two ninths each.
C21_Witness ==
    /\ op = "calculateDaughterShare"
    /\ heirs.daughters = 3
    /\ heirs.sons = 0
    /\ result.share = TwoThirds
    /\ result.perPersonShare = [num |-> 2, den |-> 9]

(***************************************************************************)
(* C22: the husband's share is 1/2 with no descendant and 1/4 with any     *)
(* descendant; the wives' total share is 1/4 with no descendant and 1/8    *)
(* with any descendant, and each wife receives the total divided by the    *)
(* number of wives (per-wife share x wife count = total share).            *)
(***************************************************************************)
Eighth == [num |-> 1, den |-> 8]

C22_Spouses ==
    LET descendants == heirs.sons + heirs.daughters + heirs.grandsonsFromSon
                       + heirs.granddaughtersFromSon > 0
    IN /\ op = "calculateHusbandShare"
             => result = (IF descendants THEN Quarter ELSE Half)
       /\ (op = "getShare" /\ arg.heirType = "husband")
             => result = (IF descendants THEN Quarter ELSE Half)
       /\ (op = "getShare" /\ arg.heirType = "wife")
             => result = (IF descendants THEN Eighth ELSE Quarter)
       /\ (op = "calculateWifeShare" /\ heirs.wife) =>
             /\ result.totalShare = (IF descendants THEN Eighth ELSE Quarter)
             /\ result.wifeCount = heirs.wifeCount
             /\ result.perWifeShare.num * result.totalShare.den * heirs.wifeCount
                   = result.totalShare.num * result.perWifeShare.den
             /\ multiply(result.perWifeShare,
                         [num |-> heirs.wifeCount, den |-> 1])
                   = result.totalShare

\* Two wives beside a daughter: a sixteenth each.
C22_Witness ==
    /\ op = "calculateWifeShare"
    /\ heirs.wife
    /\ heirs.wifeCount = 2
    /\ heirs.daughters > 0
    /\ result.perWifeShare = [num |-> 1, den |-> 16]

(***************************************************************************)
(* C23: for all Fractions a and b (b non-zero for divide), add, subtract,  *)
(* multiply and divide return a new Fraction that is the exact rational    *)
(* result in canonical form (denominator > 0, sign on the numerator,       *)
(* gcd(|num|, den) = 1), leaving a and b unchanged; so add and multiply    *)
(* are commutative, a - a = 0, a / a = 1, and simplify applied to an       *)
(* already-simplified value returns an equal value.                        *)
(***************************************************************************)
\* r is in canonical form: no integer above 1 divides both components.
IsCanonical(r) ==
    /\ IsFraction(r)
    /\ r.den > 0
    /\ \A k \in 2..r.den : ~(r.num % k = 0 /\ r.den % k = 0)

\* r is the rational n / d (d is not zero).
IsRational(r, n, d) == r.num * d = n * r.den

C23_Arithmetic ==
    LET a == OperandA
        b == OperandB
    IN /\ op = "add" =>
             /\ IsCanonical(result)
             /\ IsRational(result, a.num * b.den + b.num * a.den, a.den * b.den)
             /\ result = add(b, a)
       /\ op = "subtract" =>
             /\ IsCanonical(result)
             /\ IsRational(result, a.num * b.den - b.num * a.den, a.den * b.den)
             /\ subtract(a, a) = Nothing
       /\ op = "multiply" =>
             /\ IsCanonical(result)
             /\ IsRational(result, a.num * b.num, a.den * b.den)
             /\ result = multiply(b, a)
       /\ (op = "divide" /\ b.num # 0) =>
             /\ IsCanonical(result)
             /\ IsRational(result, a.num * b.den, a.den * b.num)
             /\ divide(b, b) = Unit
       /\ op = "simplify" =>
             /\ IsCanonical(result)
             /\ IsRational(result, a.num, a.den)
             /\ simplify(result) = result
             /\ equals(simplify(result), result)

\* Every method leaves its receiver and its argument as they were.
C23_OperandsUnchanged == arg' = arg

C23_FractionArithmetic == [][C23_OperandsUnchanged]_vars /\ []C23_Arithmetic

\* -2/2 + 3/-3 = -2: unreduced operands, one with a negative denominator.
C23_Witness ==
    /\ op = "add"
    /\ arg = [an |-> -2, ad |-> 2, bn |-> 3, bd |-> -3]
    /\ result = [num |-> -2, den |-> 1]

(***************************************************************************)
(* C24: constructing a Fraction with denominator 0 always fails with an    *)
(* error and never yields a value; dividing by a Fraction whose value is   *)
(* zero always fails with an error; every Fraction that is constructed has *)
(* a strictly positive denominator, a negative denominator being           *)
(* normalised by moving the sign to the numerator.                         *)
(***************************************************************************)
C24_FractionErrors ==
    /\ op = "construct" =>
          /\ IsThrown(result) <=> arg.ad = 0
          /\ arg.ad > 0 => result = [num |-> arg.an, den |-> arg.ad]
          /\ arg.ad < 0 => result = [num |-> -arg.an, den |-> -arg.ad]
          /\ ~IsThrown(result) => result.den > 0
    /\ op = "divide" =>
          /\ IsThrown(result) <=> arg.bn = 0
          /\ ~IsThrown(result) => result.den > 0

\* 2 / -3 is constructed as -2/3.
C24_Witness ==
    /\ op = "construct"
    /\ arg.an = 2
    /\ arg.ad = -3
    /\ result = [num |-> -2, den |-> 3]

\* A share value a caller can use: null (no fixed share) or a Fraction.
IsShareValue(v) == IsNull(v) \/ IsFraction(v)

\* Every Fraction-valued property of an object is a Fraction.
AllFractions(object) == \A key \in DOMAIN object : IsFraction(object[key])

\* The divisors of the engine on composition h: the wife count used by
\* calculateWifeShare, the unit count used by distributeAsaba when a tier
\* shares the remainder, and the recipients' total used by applyRadd.
WifeDivisor(h) == calculateWifeShare(h).wifeCount

AsabaDivisor(calculated) ==
    IF calculated.asabaInfo.hasFemales
    THEN calculated.asabaInfo.maleCount * 2 + calculated.asabaInfo.femaleCount
    ELSE calculated.asabaInfo.maleCount

\* C25: for every composition, getShare of every category, checkBlocking of
\* every category, calculateFixedSharesTotal, calculateAsaba and
\* applySpecialCases return a value and do not throw; the wife count, the
\* residuary unit count and the Radd recipients' total are non-zero where the
\* code divides by them.
C25_NoThrow ==
    /\ op = "getShare" => IsShareValue(result)
    /\ op = "checkBlocking" =>
           /\ result.blocked \in BOOLEAN
           /\ result.blocked = ~IsNull(result.reason)
    /\ op = "calculateFixedSharesTotal" => IsFraction(result)
    /\ op = "calculateAsaba" =>
           /\ IsFraction(result.remainder)
           /\ result.hasAsaba =>
                  /\ AsabaDivisor(result) > 0
                  /\ result.distribution.totalShares = AsabaDivisor(result)
                  /\ IsFraction(result.distribution.maleShare)
                  /\ IsFraction(result.distribution.femaleShare)
                  /\ IsFraction(result.distribution.perMaleShare)
                  /\ IsFraction(result.distribution.perFemaleShare)
    /\ op = "applySpecialCases" =>
           /\ result.umariyyatan.applied =>
                  /\ IsFraction(result.umariyyatan.shares.spouseShare)
                  /\ IsFraction(result.umariyyatan.shares.motherShare)
                  /\ IsFraction(result.umariyyatan.shares.fatherShare)
           /\ ~IsNull(result.awl) =>
                  /\ IsFraction(result.awl.awlRatio)
                  /\ IsFraction(result.awl.originalTotal)
                  /\ IsFraction(result.awl.adjustedTotal)
           /\ ~IsNull(result.radd) =>
                  /\ IsFraction(result.radd.remainder)
                  /\ AllFractions(result.radd.raddShares)
                  /\ result.radd.applied =>
                         ~isZero(calculateRaddRecipientsTotal(heirs,
                                     result.radd.recipients))
    /\ heirs.wife =>
           /\ WifeDivisor(heirs) > 0
           /\ IsFraction(calculateWifeShare(heirs).perWifeShare)

\* Radd has distributed a surplus among several recipients of a composition
\* with more than one wife.
C25_Witness ==
    /\ op = "applySpecialCases"
    /\ ~IsNull(result.radd)
    /\ result.radd.applied
    /\ Len(result.radd.recipients) > 1
    /\ heirs.wife
    /\ heirs.wifeCount > 1

(***************************************************************************)
(* Sisters beside a daughter or a son's daughter.                          *)
(***************************************************************************)
\* The sisters of one parentage are present, not blocked, without a brother of
\* their own parentage, and a daughter or a son's daughter is present.
SistersWithDescendant(h, sisters, brothers) ==
    /\ h[sisters] > 0
    /\ ~checkBlocking(sisters, h).blocked
    /\ h[brothers] = 0
    /\ (h.daughters > 0 \/ h.granddaughtersFromSon > 0)

\* The fixed total of composition h without the entries of the sister keys.
RECURSIVE TotalWithoutSistersFrom(_, _, _)
TotalWithoutSistersFrom(entries, i, total) ==
    IF i > Len(entries) THEN total
    ELSE TotalWithoutSistersFrom(entries, i + 1,
             IF entries[i].key \in {"fullSisters", "paternalSisters"}
             THEN total
             ELSE add(total, entries[i].share))

TotalWithoutSisters(h) ==
    TotalWithoutSistersFrom(FixedContributions(h), 1, Nothing)

\* C26: sisters who inherit beside a daughter or a son's daughter, with no
\* brother of their parentage, take the remainder: their 1/2 or 2/3 is not an
\* entry of the fixed-share total, Awl is applied only if the other fixed shares
\* exceed the estate by themselves, and Radd is not applied.
C26_SistersTakeRemainder ==
    \A pair \in {<<"fullSisters", "fullBrothers">>,
                 <<"paternalSisters", "paternalBrothers">>} :
        SistersWithDescendant(heirs, pair[1], pair[2]) =>
            /\ op = "calculateFixedSharesTotal" =>
                   /\ ContributionsOf(heirs, pair[1]) = {}
                   /\ result = TotalWithoutSisters(heirs)
            /\ op = "applySpecialCases" =>
                   /\ (~IsNull(result.awl) /\ result.awl.applied)
                      => ExceedsOne(TotalWithoutSisters(heirs))
                   /\ IsNull(result.radd) \/ ~result.radd.applied

(***************************************************************************)
(* Radd with maternal brothers and maternal sisters together.              *)
(***************************************************************************)
\* The sum of the base shares of the Radd recipients, the maternal siblings
\* counted once however many of their keys are listed.
RECURSIVE PooledBaseTotalFrom(_, _, _, _)
PooledBaseTotalFrom(h, recipients, i, total) ==
    IF i > Len(recipients) THEN total
    ELSE PooledBaseTotalFrom(h, recipients, i + 1,
             IF /\ recipients[i] = "maternalSisters"
                /\ Includes(recipients, "maternalBrothers")
             THEN total
             ELSE add(total,
                      getRecipientRaddShare(recipients[i], h,
                                            <<recipients[i]>>)))

\* C27: when Radd is applied and maternal brothers and maternal sisters are
\* both present, the addends under the keys maternalBrothers and
\* maternalSisters together equal remainder * (pooled base share / sum of the
\* recipients' base shares): the pooled share is distributed once.
C27_MaternalSiblingsPooledOnce ==
    (/\ op = "applyRadd"
     /\ result.applied
     /\ heirs.maternalBrothers > 0
     /\ heirs.maternalSisters > 0)
    => /\ Includes(result.recipients, "maternalBrothers")
       /\ Includes(result.recipients, "maternalSisters")
       /\ add(result.raddShares["maternalBrothers"],
              result.raddShares["maternalSisters"])
          = multiply(result.remainder,
                     divide(MaternalSiblingsRule(heirs),
                            PooledBaseTotalFrom(heirs, result.recipients, 1,
                                                Nothing)))

(***************************************************************************)
(* The maternal grandmother and the mother.                                *)
(***************************************************************************)
\* C28: a maternal grandmother is blocked by the mother.  With the mother
\* present she has no part in the grandmothers' share and checkBlocking and
\* getAllBlockings report her blocked with a reason; with the mother absent
\* she is reported not blocked.
C28_MaternalGrandmotherBlocked ==
    heirs.maternalGrandmother =>
        /\ heirs.mother =>
               \/ IsNull(calculateGrandmotherShare(heirs))
               \/ ~calculateGrandmotherShare(heirs).maternalGrandmother
        /\ (op = "checkBlocking" /\ arg.heirType = "maternalGrandmother") =>
               /\ result.blocked = heirs.mother
               /\ IsNull(result.reason) = ~heirs.mother
        /\ (op = "getAllBlockings" /\ heirs.mother) =>
               /\ "maternalGrandmother" \in DOMAIN result
               /\ result["maternalGrandmother"].blocked
        /\ (op = "getAllBlockings" /\ ~heirs.mother
            /\ "maternalGrandmother" \in DOMAIN result) =>
               ~result["maternalGrandmother"].blocked

(***************************************************************************)
(* Agreement of the share calculator with the blocking module.             *)
(***************************************************************************)
\* The categories whose persons a fixed-total entry under `key` pays: the
\* grandmothers counted by calculateGrandmotherShare, the maternal siblings
\* present, otherwise the category of the same name.
CategoriesPaidBy(h, key) ==
    IF key = "grandmothers"
    THEN {g \in {"paternalGrandmother", "maternalGrandmother"} :
             calculateGrandmotherShare(h)[g]}
    ELSE IF key = "maternalSiblings"
    THEN {m \in {"maternalBrothers", "maternalSisters"} : h[m] > 0}
    ELSE {key}

\* C29: no entry of calculateFixedSharesTotal pays a category that
\* checkBlocking reports blocked, and the category determineAsaba returns,
\* with the female category sharing its tier, is not reported blocked.
C29_SharesAgreeWithBlocking ==
    /\ op = "calculateFixedSharesTotal" =>
           LET fixed == FixedContributions(heirs)
           IN /\ result = SumFrom(fixed, 1, Nothing)
              /\ \A i \in 1..Len(fixed) :
                     \A category \in CategoriesPaidBy(heirs, fixed[i].key) :
                         ~checkBlocking(category, heirs).blocked
    /\ (op = "determineAsaba" /\ ~IsNull(result)) =>
           /\ ~checkBlocking(result.key, heirs).blocked
           /\ result.hasFemales =>
                  ~checkBlocking(PairedFemale(result.key), heirs).blocked

\* The fixed total of a composition in which some present category is
\* reported blocked has been computed, and it has entries.
C29_Witness ==
    /\ op = "calculateFixedSharesTotal"
    /\ \E category \in Kinds :
           /\ Present(heirs, category)
           /\ checkBlocking(category, heirs).blocked
    /\ Len(FixedContributions(heirs)) > 0
    /\ IsPositive(result)

(***************************************************************************)
(* The base shares of Radd against the fixed shares.                       *)
(***************************************************************************)
\* The spouse's entry in the fixed total of composition h; zero without one.
SpouseFixedShare(h) ==
    LET fixed == FixedContributions(h)
        spouse == {i \in 1..Len(fixed) : fixed[i].key \in {"husband", "wife"}}
    IN IF spouse = {} THEN Nothing
       ELSE fixed[CHOOSE i \in spouse : TRUE].share

\* C30: whenever Radd is applied, the spouse's fixed share plus
\* calculateRaddRecipientsTotal(heirs, recipients) equals
\* calculateFixedSharesTotal(heirs), and one minus that sum is the remainder
\* that is redistributed.
C30_RaddBaseIsFixedTotal ==
    (op = "applyRadd" /\ result.applied) =>
        LET base == add(SpouseFixedShare(heirs),
                        calculateRaddRecipientsTotal(heirs, result.recipients))
        IN /\ base = calculateFixedSharesTotal(heirs)
           /\ result.remainder = subtract(Unit, base)

\* Radd has been applied beside a spouse, to more than one recipient.
C30_Witness ==
    /\ op = "applyRadd"
    /\ result.applied
    /\ (heirs.husband \/ heirs.wife)
    /\ IsPositive(SpouseFixedShare(heirs))
    /\ Len(result.recipients) > 1
    /\ IsPositive(result.remainder)

====
